---- MODULE Spec2Model ----
(***************************************************************************)
(* Corpus Informaticus: the CIVD v0.3 dense volume codec, the v0.6 ROI     *)
(* engine and the v0.7 tile grid, modelled from the Python sources.        *)
(*                                                                         *)
(* Bytes are the integers 0..255 and a byte string is a sequence of them.  *)
(* A call that raises is the record [st |-> "err", ...]; a call that       *)
(* returns is [st |-> "ok", ...]; a call not made yet is [st |-> "none"].  *)
(***************************************************************************)
EXTENDS Integers, Sequences, FiniteSets, TLC

\* ------------------------------------------------------------------------
\* Bounds of the model
\* ------------------------------------------------------------------------

\* largest side of a codec volume drawn as an input
MaxDim == 2
\* largest in-range channel count drawn as an input
MaxChannels == 2
\* largest side of a volume handed to clamp_roi
MaxSide == 2
\* largest side of a tile
MaxTile == 2
\* largest side of a volume whose buffer is read
MaxVol == 2

\* ------------------------------------------------------------------------
\* Program constants
\* ------------------------------------------------------------------------

\* codec_v03.VERSION_V03
VERSION_V03 == 3
\* HEADER_STRUCT.size of "<4s H H H H B 3s I I"
HEADER_SIZE == 24
\* FOOTER_STRUCT.size of "<I"
FOOTER_SIZE == 4
\* largest value struct packs into an "H" field
U16_MAX == 65535
\* largest value struct packs into a "B" field
U8_MAX == 255

\* codec_v03.MAGIC = b"CI3\x00"
MAGIC == <<67, 73, 51, 0>>

None == [st |-> "none"]
Raise(kind) == [st |-> "err", kind |-> kind]

Min(a, b) == IF a <= b THEN a ELSE b
Max(a, b) == IF a >= b THEN a ELSE b

\* ------------------------------------------------------------------------
\* Byte-level helpers: struct little-endian fields, slices, CRC-32
\* ------------------------------------------------------------------------

\* bitwise exclusive or of two naturals
RECURSIVE Xor(_, _)
Xor(a, b) ==
    IF a = 0 THEN b
    ELSE IF b = 0 THEN a
    ELSE ((a + b) % 2) + 2 * Xor(a \div 2, b \div 2)

\* struct "<H": two bytes, low byte first
PackU16(n) == <<n % 256, n \div 256>>
UnpackU16(s) == s[1] + 256 * s[2]

\* struct "<I": four bytes, low byte first
PackU32(n) == <<n % 256, (n \div 256) % 256, (n \div 65536) % 256, n \div 16777216>>
UnpackU32(s) == s[1] + 256 * s[2] + 65536 * s[3] + 16777216 * s[4]

\* Python's s[a:b] for 0 <= a, on 0-based offsets
Slice(s, a, b) ==
    LET hi == Min(b, Len(s))
    IN  IF hi <= a THEN <<>> ELSE SubSeq(s, a + 1, hi)

Zeros(n) == [i \in 1..n |-> 0]

\* One bit of the reflected CRC-32 register, kept as <<high half, low half>>
\* of 16 bits each: shift right, and xor the polynomial 0xEDB88320 when the
\* bit shifted out is set.
CrcShift(c) ==
    LET hi == c[1] \div 2
        lo == (c[2] \div 2) + (c[1] % 2) * 32768
    IN  IF c[2] % 2 = 1 THEN <<Xor(hi, 60856), Xor(lo, 33568)>> ELSE <<hi, lo>>

\* zlib's table: entry b, kept at index b + 1, is the register <<0, b>> after
\* eight shifts
CrcTable ==
    <<>> \o [k \in 1..256 |->
        CrcShift(CrcShift(CrcShift(CrcShift(
        CrcShift(CrcShift(CrcShift(CrcShift(<<0, k - 1>>))))))))]

\* a ^ b of two bytes, looked up in a table indexed by 256 * a + b + 1, and
\* of two 16-bit halves
XorTable == <<>> \o [k \in 1..65536 |-> Xor((k - 1) \div 256, (k - 1) % 256)]
Xor8(a, b) == XorTable[256 * a + b + 1]
Xor16(a, b) == 256 * Xor8(a \div 256, b \div 256) + Xor8(a % 256, b % 256)

\* the register after one byte: c = table[(c ^ byte) & 0xFF] ^ (c >> 8)
CrcByte(c, b) ==
    LET t == CrcTable[Xor8(c[2] % 256, b) + 1]
    IN  <<Xor16(c[1] \div 256, t[1]), Xor16((c[2] \div 256) + (c[1] % 256) * 256, t[2])>>

\* the register after bytes lo..hi (1-based) of s, taken in order: the first
\* half, then the second half from the register the first half left
RECURSIVE CrcBytes(_, _, _, _)
CrcBytes(c, s, lo, hi) ==
    IF lo > hi THEN c
    ELSE IF lo = hi THEN CrcByte(c, s[lo])
    ELSE LET mid == (lo + hi) \div 2
             n == CrcBytes(c, s, lo, mid)
         IN  IF n[1] >= 0 THEN CrcBytes(n, s, mid + 1, hi) ELSE n

\* zlib.crc32(volume) & 0xFFFFFFFF, as the four bytes FOOTER_STRUCT packs
Crc32(s) ==
    LET c  == CrcBytes(<<65535, 65535>>, s, 1, Len(s))
        hi == 65535 - c[1]
        lo == 65535 - c[2]
    IN  PackU16(lo) \o PackU16(hi)

\* ------------------------------------------------------------------------
\* codec_v03: header, encoder, decoder
\* ------------------------------------------------------------------------

\* a capacity that forgets the channels
dims_to_volume_size_voxels(x, y, z, c) == x * y * z

dims_to_volume_size(x, y, z, c) == x * y * z * c

\* CI3Header.pack: struct refuses a value that does not fit its field
\* (orig_length and reserved2 are "I" fields; no payload drawn here comes
\* near 2^32 bytes)
HeaderFits(h) ==
    /\ h.version \in 0..U16_MAX
    /\ h.dim_x \in 0..U16_MAX
    /\ h.dim_y \in 0..U16_MAX
    /\ h.dim_z \in 0..U16_MAX
    /\ h.channels \in 0..U8_MAX

HeaderPack(h) ==
    h.magic \o PackU16(h.version) \o PackU16(h.dim_x) \o PackU16(h.dim_y)
        \o PackU16(h.dim_z) \o <<h.channels>> \o h.reserved1
        \o PackU32(h.orig_length) \o PackU32(h.reserved2)

\* CI3Header.unpack of exactly HEADER_SIZE bytes
HeaderUnpack(s) ==
    [magic       |-> Slice(s, 0, 4),
     version     |-> UnpackU16(Slice(s, 4, 6)),
     dim_x       |-> UnpackU16(Slice(s, 6, 8)),
     dim_y       |-> UnpackU16(Slice(s, 8, 10)),
     dim_z       |-> UnpackU16(Slice(s, 10, 12)),
     channels    |-> s[13],
     reserved1   |-> Slice(s, 13, 16),
     orig_length |-> UnpackU32(Slice(s, 16, 20)),
     reserved2   |-> UnpackU32(Slice(s, 20, 24))]

\* CI3Header.validate_basic: TRUE when no check raises
validate_basic(h) ==
    /\ h.magic = MAGIC
    /\ h.version = VERSION_V03
    /\ ~(h.dim_x <= 0 \/ h.dim_y <= 0 \/ h.dim_z <= 0)
    /\ ~(h.channels <= 0)
    /\ h.reserved1 = <<0, 0, 0>>
    /\ h.reserved2 = 0

encode_bytes_to_civd_v03(pl, dm, ch) ==
    IF ch <= 0 THEN Raise("ValueError")
    ELSE IF dm[1] <= 0 \/ dm[2] <= 0 \/ dm[3] <= 0 THEN Raise("ValueError")
    ELSE LET capacity == dims_to_volume_size(dm[1], dm[2], dm[3], ch)
             header == [magic |-> MAGIC, version |-> VERSION_V03,
                        dim_x |-> dm[1], dim_y |-> dm[2], dim_z |-> dm[3],
                        channels |-> ch, reserved1 |-> <<0, 0, 0>>,
                        orig_length |-> Len(pl), reserved2 |-> 0]
             volume == pl \o Zeros(capacity - Len(pl))
         IN  IF Len(pl) > capacity THEN Raise("ValueError")
             ELSE IF ~HeaderFits(header) THEN Raise("struct.error")
             ELSE [st |-> "ok",
                   bytes |-> HeaderPack(header) \o volume \o Crc32(volume)]

\* a decoder that forgets the cut at orig_length and hands back the padding
recover_payload_whole(volume, orig_length) == volume

\* payload = volume[: header.orig_length]
recover_payload(volume, orig_length) == Slice(volume, 0, orig_length)

decode_civd_v03(b) ==
    IF Len(b) < HEADER_SIZE + FOOTER_SIZE THEN Raise("ValueError")
    ELSE LET header == HeaderUnpack(Slice(b, 0, HEADER_SIZE))
             capacity == dims_to_volume_size(header.dim_x, header.dim_y,
                                             header.dim_z, header.channels)
             volume == Slice(b, HEADER_SIZE, Len(b) - FOOTER_SIZE)
             crc_stored == Slice(b, Len(b) - FOOTER_SIZE, Len(b))
             crc_calc == Crc32(volume)
         IN  IF ~validate_basic(header) THEN Raise("ValueError")
             ELSE IF Len(volume) # capacity THEN Raise("ValueError")
             ELSE [st |-> "ok",
                   payload |-> recover_payload(volume, header.orig_length),
                   dims |-> <<header.dim_x, header.dim_y, header.dim_z>>,
                   channels |-> header.channels, capacity |-> capacity,
                   crc_ok |-> (crc_calc = crc_stored), header |-> header]

\* ------------------------------------------------------------------------
\* roi_v06: ROI boxes, clamping, slices
\* ------------------------------------------------------------------------

\* RoiV06(x, y, z, w, h, d)
RoiV06(x, y, z, w, h, d) == [x |-> x, y |-> y, z |-> z, w |-> w, h |-> h, d |-> d]

\* a clamp that hands back the clamped end where the length belongs
clamp_interval_end(start, length, max_size) ==
    IF length <= 0 THEN <<0, 0>>
    ELSE LET s == Max(0, start)
             e == Min(max_size, start + length)
         IN  IF e <= s THEN <<0, 0>> ELSE <<s, e>>

\* a clamp that forgets the upper bound of the volume
clamp_interval_open(start, length, max_size) ==
    IF length <= 0 THEN <<0, 0>>
    ELSE LET s == Max(0, start)
             e == start + length
         IN  IF e <= s THEN <<0, 0>> ELSE <<s, e - s>>

\* a clamp that moves the start to 0 but keeps the caller's length
clamp_interval_shift(start, length, max_size) ==
    IF length <= 0 THEN <<0, 0>>
    ELSE LET s == Max(0, start)
             e == Min(max_size, s + length)
         IN  IF e <= s THEN <<0, 0>> ELSE <<s, e - s>>

\* _clamp_interval: <<clamped_start, clamped_length>>
clamp_interval(start, length, max_size) ==
    IF length <= 0 THEN <<0, 0>>
    ELSE LET s == Max(0, start)
             e == Min(max_size, start + length)
         IN  IF e <= s THEN <<0, 0>> ELSE <<s, e - s>>

clamp_roi(r, dm) ==
    LET xw == clamp_interval(r.x, r.w, dm[1])
        yh == clamp_interval(r.y, r.h, dm[2])
        zd == clamp_interval(r.z, r.d, dm[3])
    IN  RoiV06(xw[1], yh[1], zd[1], xw[2], yh[2], zd[2])

\* roi_to_slices: (slice z, slice y, slice x), each as <<start, stop>>
roi_to_slices(r) == <<<<r.z, r.z + r.d>>, <<r.y, r.y + r.h>>, <<r.x, r.x + r.w>>>>

\* ------------------------------------------------------------------------
\* tile_manifest_v07, tile_pack_v07, tiler_v07: the tile grid
\* ------------------------------------------------------------------------

\* TileIndexV07(tx, ty, tz)
TileIndexV07(tx, ty, tz) == [tx |-> tx, ty |-> ty, tz |-> tz]

\* the indices a loop nest `for tz in range(z0, z1): for ty in range(y0, y1):
\* for tx in range(x0, x1)` visits, in the order it visits them
LoopZYX(z0, z1, y0, y1, x0, x1) ==
    LET nz == Max(0, z1 - z0)
        ny == Max(0, y1 - y0)
        nx == Max(0, x1 - x0)
    IN  [k \in 1..(nz * ny * nx) |->
            TileIndexV07(x0 + ((k - 1) % nx),
                         y0 + (((k - 1) \div nx) % ny),
                         z0 + ((k - 1) \div (nx * ny)))]

\* TileGridSpecV07(dims, tile); __post_init__ raises unless all are positive
TileGridSpecV07(dm, tl) ==
    IF dm[1] <= 0 \/ dm[2] <= 0 \/ dm[3] <= 0 THEN Raise("ValueError")
    ELSE IF tl[1] <= 0 \/ tl[2] <= 0 \/ tl[3] <= 0 THEN Raise("ValueError")
    ELSE [st |-> "ok", dims |-> dm, tile |-> tl]

\* ceil_div inside TileGridSpecV07.grid_dims
ceil_div(a, b) == (a + b - 1) \div b

grid_dims(g) ==
    <<ceil_div(g.dims[1], g.tile[1]), ceil_div(g.dims[2], g.tile[2]),
      ceil_div(g.dims[3], g.tile[3])>>

\* tile bounds that do not stop at the edge of the volume
tile_bounds_unclipped(g, idx) ==
    LET gd == grid_dims(g)
    IN  IF ~(/\ 0 <= idx.tx /\ idx.tx < gd[1] /\ 0 <= idx.ty /\ idx.ty < gd[2]
             /\ 0 <= idx.tz /\ idx.tz < gd[3])
        THEN Raise("ValueError")
        ELSE [st |-> "ok",
              x0 |-> idx.tx * g.tile[1], x1 |-> idx.tx * g.tile[1] + g.tile[1],
              y0 |-> idx.ty * g.tile[2], y1 |-> idx.ty * g.tile[2] + g.tile[2],
              z0 |-> idx.tz * g.tile[3], z1 |-> idx.tz * g.tile[3] + g.tile[3]]

\* TileGridSpecV07.tile_bounds: (x0, x1, y0, y1, z0, z1), upper bounds exclusive
tile_bounds(g, idx) ==
    LET gd == grid_dims(g)
    IN  IF ~(/\ 0 <= idx.tx /\ idx.tx < gd[1] /\ 0 <= idx.ty /\ idx.ty < gd[2]
             /\ 0 <= idx.tz /\ idx.tz < gd[3])
        THEN Raise("ValueError")
        ELSE [st |-> "ok",
              x0 |-> idx.tx * g.tile[1],
              x1 |-> Min(idx.tx * g.tile[1] + g.tile[1], g.dims[1]),
              y0 |-> idx.ty * g.tile[2],
              y1 |-> Min(idx.ty * g.tile[2] + g.tile[2], g.dims[2]),
              z0 |-> idx.tz * g.tile[3],
              z1 |-> Min(idx.tz * g.tile[3] + g.tile[3], g.dims[3])]

\* math.ceil(x / t) for a positive t and a side below 2^49, where the float
\* quotient rounds to no whole number unless x / t is one
math_ceil_div(x, t) == IF x % t = 0 THEN x \div t ELSE (x \div t) + 1

\* tile_pack_v07._compute_tiles_per_axis
compute_tiles_per_axis(volume_dims, tile_size) ==
    IF tile_size[1] <= 0 \/ tile_size[2] <= 0 \/ tile_size[3] <= 0
    THEN Raise("ValueError")
    ELSE [st |-> "ok",
          tiles |-> <<math_ceil_div(volume_dims[1], tile_size[1]),
                      math_ceil_div(volume_dims[2], tile_size[2]),
                      math_ceil_div(volume_dims[3], tile_size[3])>>]

\* the TilingSpecV07 that tile_volume_buffer builds for a volume and tile size
TilingSpecV07(volume_dims, tile_size) ==
    [volume_dims |-> volume_dims, tile_size |-> tile_size,
     tiles_per_axis |-> compute_tiles_per_axis(volume_dims, tile_size).tiles]

\* a query whose overlap test lets a tile that only touches the ROI through
query_tiles_touching(ts, r) ==
    LET Keep(idx) ==
            LET z0 == idx.tz * ts.tile_size[3]
                z1 == Min(z0 + ts.tile_size[3], ts.volume_dims[3])
                y0 == idx.ty * ts.tile_size[2]
                y1 == Min(y0 + ts.tile_size[2], ts.volume_dims[2])
                x0 == idx.tx * ts.tile_size[1]
                x1 == Min(x0 + ts.tile_size[1], ts.volume_dims[1])
            IN  /\ ~(z1 <= z0) /\ (z0 <= r.z + r.d /\ z1 >= r.z)
                /\ ~(y1 <= y0) /\ (y0 <= r.y + r.h /\ y1 >= r.y)
                /\ ~(x1 <= x0) /\ (x0 <= r.x + r.w /\ x1 >= r.x)
    IN  SelectSeq(LoopZYX(0, ts.tiles_per_axis[3], 0, ts.tiles_per_axis[2],
                          0, ts.tiles_per_axis[1]), Keep)

\* tile_pack_v07.query_tiles_for_roi: every tile of the loop nest that no
\* `continue` skips, in loop order
query_tiles_for_roi(ts, r) ==
    LET Keep(idx) ==
            LET z0 == idx.tz * ts.tile_size[3]
                z1 == Min(z0 + ts.tile_size[3], ts.volume_dims[3])
                y0 == idx.ty * ts.tile_size[2]
                y1 == Min(y0 + ts.tile_size[2], ts.volume_dims[2])
                x0 == idx.tx * ts.tile_size[1]
                x1 == Min(x0 + ts.tile_size[1], ts.volume_dims[1])
            IN  /\ ~(z1 <= z0) /\ (z0 < r.z + r.d /\ z1 > r.z)
                /\ ~(y1 <= y0) /\ (y0 < r.y + r.h /\ y1 > r.y)
                /\ ~(x1 <= x0) /\ (x0 < r.x + r.w /\ x1 > r.x)
    IN  SelectSeq(LoopZYX(0, ts.tiles_per_axis[3], 0, ts.tiles_per_axis[2],
                          0, ts.tiles_per_axis[1]), Keep)

\* the last tile coordinate of an axis computed from the exclusive end
tile_end_exclusive(end_clamped, size, g) == Max(0, Min(end_clamped \div size, g - 1))

\* tiler_v07.tiles_for_roi: t_end = max(0, min((x1_clamped - 1) // size, g - 1))
tile_end(end_clamped, size, g) == Max(0, Min((end_clamped - 1) \div size, g - 1))

\* tiler_v07.tiles_for_roi: t_start = max(0, min(x0_clamped // size, g - 1))
tile_start(start_clamped, size, g) == Max(0, Min(start_clamped \div size, g - 1))

\* tiler_v07.tiles_for_roi on manifest.grid
tiles_for_roi(g, r) ==
    LET x0 == r.x
        y0 == r.y
        z0 == r.z
        x1 == r.x + r.w
        y1 == r.y + r.h
        z1 == r.z + r.d
        x0c == Max(0, x0)
        y0c == Max(0, y0)
        z0c == Max(0, z0)
        x1c == Min(g.dims[1], x1)
        y1c == Min(g.dims[2], y1)
        z1c == Min(g.dims[3], z1)
        gd == grid_dims(g)
    IN  IF x0 >= g.dims[1] \/ y0 >= g.dims[2] \/ z0 >= g.dims[3] THEN <<>>
        ELSE IF x1 <= 0 \/ y1 <= 0 \/ z1 <= 0 THEN <<>>
        ELSE IF x1c <= x0c \/ y1c <= y0c \/ z1c <= z0c THEN <<>>
        ELSE LoopZYX(tile_start(z0c, g.tile[3], gd[3]),
                     tile_end(z1c, g.tile[3], gd[3]) + 1,
                     tile_start(y0c, g.tile[2], gd[2]),
                     tile_end(y1c, g.tile[2], gd[2]) + 1,
                     tile_start(x0c, g.tile[1], gd[1]),
                     tile_end(x1c, g.tile[1], gd[1]) + 1)

\* ------------------------------------------------------------------------
\* roi_v06: the volume view and the strict region read
\* ------------------------------------------------------------------------

\* VolumeSpecV06(dims, channels, dtype, order, signature)
VolumeSpecV06(dm, ch, dtype, order, signature) ==
    [dims |-> dm, channels |-> ch, dtype |-> dtype, order |-> order,
     signature |-> signature]

\* np.dtype(name).itemsize
itemsize(dtype) ==
    CASE dtype = "uint8" -> 1 [] dtype = "uint16" -> 2 [] dtype = "float32" -> 4

\* VolumeSpecV06.expected_nbytes
expected_nbytes(sp) ==
    sp.dims[1] * sp.dims[2] * sp.dims[3] * sp.channels * itemsize(sp.dtype)

\* np.frombuffer(buf, dtype)[e]: element e (0-based), as the bytes that hold it
frombuffer_at(b, dtype, e) == Slice(b, e * itemsize(dtype), (e + 1) * itemsize(dtype))

\* a view that lays the axes out as (x, y, z, C) instead of (z, y, x, C)
view_index_xyz(shape, order, k, j, i, n) ==
    IF order = "C"
    THEN ((i * shape[2] + j) * shape[1] + k) * shape[4] + n
    ELSE k + shape[1] * (j + shape[2] * (i + shape[3] * n))

\* arr.reshape((z, y, x, C), order=order): the element of arr that index
\* [k][j][i][n] of the reshaped array names; shape is <<z, y, x, C>>
view_index(shape, order, k, j, i, n) ==
    IF order = "C"
    THEN ((k * shape[2] + j) * shape[3] + i) * shape[4] + n
    ELSE k + shape[1] * (j + shape[2] * (i + shape[3] * n))

\* the index tuples of an array of the given 4D shape
Indices4(shape) ==
    (0..(shape[1] - 1)) \X (0..(shape[2] - 1)) \X (0..(shape[3] - 1))
        \X (0..(shape[4] - 1))

\* _volume_view_from_bytes: the (z, y, x, channels) view, or the error raised
volume_view_from_bytes(b, sp) ==
    IF Len(b) # expected_nbytes(sp) THEN Raise("ValueError")
    ELSE IF sp.signature \notin {"C_CONTIG", "F_CONTIG"}
         THEN Raise("NotImplementedError")
    ELSE IF sp.order \notin {"C", "F"} THEN Raise("ValueError")
    ELSE LET shape == <<sp.dims[3], sp.dims[2], sp.dims[1], sp.channels>>
         IN  [st |-> "ok", shape |-> shape,
              data |-> [t \in Indices4(shape) |->
                           frombuffer_at(b, sp.dtype,
                               view_index(shape, sp.order, t[1], t[2], t[3], t[4]))]]

\* a range test that lets an empty range through
axis_in_bounds_or_empty(a0, a1, a_max) == 0 <= a0 /\ a0 <= a1 /\ a1 <= a_max

\* read_region_from_bytes: 0 <= x0 < x1 <= x_max
axis_in_bounds(a0, a1, a_max) == 0 <= a0 /\ a0 < a1 /\ a1 <= a_max

\* a channel test that lets the index one past the last channel through
channel_in_range_loose(c, nch) == ~(c < 0 \/ c > nch)

\* read_region_from_bytes: no raise for channel c
channel_in_range(c, nch) == ~(c < 0 \/ c >= nch)

\* read_region_from_bytes(buf, spec, x, y, z, w, h, d, channels); sel is
\* [some |-> FALSE] for channels=None and [some |-> TRUE, list |-> ...]
\* otherwise. copy only decides whether the result aliases buf.
read_region_from_bytes(b, sp, r, sel) ==
    LET vol == volume_view_from_bytes(b, sp)
        x1 == r.x + r.w
        y1 == r.y + r.h
        z1 == r.z + r.d
        cut == [t \in Indices4(<<r.d, r.h, r.w, sp.channels>>) |->
                   vol.data[<<r.z + t[1], r.y + t[2], r.x + t[3], t[4]>>]]
    IN  IF vol.st # "ok" THEN vol
        ELSE IF ~axis_in_bounds(r.x, x1, sp.dims[1]) THEN Raise("ValueError")
        ELSE IF ~axis_in_bounds(r.y, y1, sp.dims[2]) THEN Raise("ValueError")
        ELSE IF ~axis_in_bounds(r.z, z1, sp.dims[3]) THEN Raise("ValueError")
        ELSE IF ~sel.some
             THEN [st |-> "ok", shape |-> <<r.d, r.h, r.w, sp.channels>>, data |-> cut]
        ELSE IF \E m \in 1..Len(sel.list) : ~channel_in_range(sel.list[m], sp.channels)
             THEN Raise("ValueError")
        ELSE [st |-> "ok", shape |-> <<r.d, r.h, r.w, Len(sel.list)>>,
              data |-> [t \in Indices4(<<r.d, r.h, r.w, Len(sel.list)>>) |->
                           cut[<<t[1], t[2], t[3], sel.list[t[4] + 1]>>]]]

\* ------------------------------------------------------------------------
\* Text and JSON, as the snapshot and manifest code uses them
\* ------------------------------------------------------------------------

\* A str is the sequence of its code points; bytes are sequences of 0..255.

\* Op applied to the value of v, which is computed once: a local variable
\* of the source that is assigned once and read many times
With(v, Op(_)) == CHOOSE out \in {Op(x) : x \in {v}} : TRUE

\* Python's None as a value
PyNone == [t |-> "null"]
\* Python ints, strs, lists and dicts; a dict keeps its items in insertion
\* order, as <<key, value>> pairs with distinct keys
PyInt(n) == [t |-> "int", n |-> n]
PyStr(s) == [t |-> "str", s |-> s]
PyList(items) == [t |-> "list", items |-> items]
PyDict(pairs) == [t |-> "dict", pairs |-> pairs]

\* a == b for two of these values: dicts compare by key, not by order
RECURSIVE py_eq(_, _)
py_eq(a, b) ==
    IF a.t # b.t THEN FALSE
    ELSE IF a.t = "list"
         THEN /\ Len(a.items) = Len(b.items)
              /\ \A i \in 1..Len(a.items) : py_eq(a.items[i], b.items[i])
    ELSE IF a.t = "dict"
         THEN /\ Len(a.pairs) = Len(b.pairs)
              /\ \A i \in 1..Len(a.pairs) : \E j \in 1..Len(b.pairs) :
                    /\ a.pairs[i][1] = b.pairs[j][1]
                    /\ py_eq(a.pairs[i][2], b.pairs[j][2])
    ELSE a = b

\* d[key] = value on a dict's items
dict_set(pairs, key, value) ==
    IF \E i \in 1..Len(pairs) : pairs[i][1] = key
    THEN [i \in 1..Len(pairs) |->
             IF pairs[i][1] = key THEN <<key, value>> ELSE pairs[i]]
    ELSE Append(pairs, <<key, value>>)

\* the concatenation of a sequence of sequences
RECURSIVE Concat(_)
Concat(ss) ==
    IF Len(ss) = 0 THEN <<>>
    ELSE IF Len(ss) = 1 THEN ss[1]
    ELSE LET h == Len(ss) \div 2
         IN  Concat(SubSeq(ss, 1, h)) \o Concat(SubSeq(ss, h + 1, Len(ss)))

\* str.encode("utf-8") of one code point (below 0x10000, no surrogates)
utf8_of(cp) ==
    IF cp < 128 THEN <<cp>>
    ELSE IF cp < 2048 THEN <<192 + (cp \div 64), 128 + (cp % 64)>>
    ELSE <<224 + (cp \div 4096), 128 + ((cp \div 64) % 64), 128 + (cp % 64)>>

\* s.encode("utf-8")
utf8_encode(s) == Concat([i \in 1..Len(s) |-> utf8_of(s[i])])

\* b.decode("utf-8"): every byte that is not a continuation byte (10xxxxxx)
\* leads one code point, and must be followed by exactly the continuation
\* bytes its width asks for; anything else raises. (Code points from 0x10000
\* on, four bytes wide, are not among the text drawn here.)
utf8_decode(b) ==
    LET IsLead(i) == b[i] \div 64 # 2
        IsCont(i) == i <= Len(b) /\ b[i] \div 64 = 2
        width(i) ==
            IF b[i] < 128 THEN 1
            ELSE IF b[i] >= 194 /\ b[i] < 224 /\ IsCont(i + 1) THEN 2
            ELSE IF b[i] >= 224 /\ b[i] < 240 /\ IsCont(i + 1) /\ IsCont(i + 2)
                    /\ (b[i] - 224) * 4096 + (b[i + 1] - 128) * 64 >= 2048
                 THEN 3
            ELSE 0
        cp(i, w) ==
            IF w = 1 THEN b[i]
            ELSE IF w = 2 THEN (b[i] - 192) * 64 + (b[i + 1] - 128)
            ELSE (b[i] - 224) * 4096 + (b[i + 1] - 128) * 64 + (b[i + 2] - 128)
    IN  With(SelectSeq([i \in 1..Len(b) |-> i], IsLead), LAMBDA leads :
        With(<<>> \o [k \in 1..Len(leads) |-> width(leads[k])], LAMBDA widths :
            IF /\ (Len(b) = 0 \/ IsLead(1))
               /\ \A k \in 1..Len(leads) :
                     /\ widths[k] > 0
                     /\ leads[k] + widths[k]
                            = (IF k < Len(leads) THEN leads[k + 1] ELSE Len(b) + 1)
            THEN [st |-> "ok", s |-> [k \in 1..Len(leads) |-> cp(leads[k], widths[k])]]
            ELSE Raise("UnicodeDecodeError")))

\* the decimal digits of n >= 0
RECURSIVE Digits(_)
Digits(n) == IF n < 10 THEN <<48 + n>> ELSE Append(Digits(n \div 10), 48 + (n % 10))

\* str(n) of an int
int_to_str(n) == IF n < 0 THEN <<45>> \o Digits(-n) ELSE Digits(n)

\* one lower-case hexadecimal digit
HexDigit(d) == IF d < 10 THEN 48 + d ELSE 87 + d

\* json: one character of a string literal
json_escape(cp, ensure_ascii) ==
    IF cp = 34 THEN <<92, 34>>
    ELSE IF cp = 92 THEN <<92, 92>>
    ELSE IF cp = 10 THEN <<92, 110>>
    ELSE IF cp = 13 THEN <<92, 114>>
    ELSE IF cp = 9 THEN <<92, 116>>
    ELSE IF cp = 8 THEN <<92, 98>>
    ELSE IF cp = 12 THEN <<92, 102>>
    ELSE IF cp < 32 \/ (ensure_ascii /\ cp > 127)
         THEN <<92, 117, HexDigit(cp \div 4096), HexDigit((cp \div 256) % 16),
                HexDigit((cp \div 16) % 16), HexDigit(cp % 16)>>
    ELSE <<cp>>

\* json: a string literal
json_string(s, ensure_ascii) ==
    <<34>> \o Concat([i \in 1..Len(s) |-> json_escape(s[i], ensure_ascii)]) \o <<34>>

\* a < b for two strs, by code point
RECURSIVE str_less(_, _)
str_less(a, b) ==
    IF Len(b) = 0 THEN FALSE
    ELSE IF Len(a) = 0 THEN TRUE
    ELSE IF a[1] # b[1] THEN a[1] < b[1]
    ELSE str_less(Tail(a), Tail(b))

\* sorted(d.items()) of a dict with str keys
RECURSIVE sorted_items(_)
sorted_items(pairs) ==
    IF Len(pairs) <= 1 THEN pairs
    ELSE LET m == CHOOSE i \in 1..Len(pairs) :
                     \A j \in 1..Len(pairs) : j = i \/ str_less(pairs[i][1], pairs[j][1])
             rest == [i \in 1..(Len(pairs) - 1) |->
                         IF i < m THEN pairs[i] ELSE pairs[i + 1]]
         IN  <<pairs[m]>> \o sorted_items(rest)

\* the parts joined by commas
RECURSIVE JoinComma(_)
JoinComma(parts) ==
    IF Len(parts) = 0 THEN <<>>
    ELSE IF Len(parts) = 1 THEN parts[1]
    ELSE parts[1] \o <<44>> \o JoinComma(Tail(parts))

\* json.dumps(v, separators=(",", ":"), sort_keys=..., ensure_ascii=...)
RECURSIVE json_dumps(_, _, _)
json_dumps(v, sort_keys, ensure_ascii) ==
    IF v.t = "null" THEN <<110, 117, 108, 108>>
    ELSE IF v.t = "int" THEN int_to_str(v.n)
    ELSE IF v.t = "str" THEN json_string(v.s, ensure_ascii)
    ELSE IF v.t = "list"
         THEN <<91>> \o JoinComma([i \in 1..Len(v.items) |->
                           json_dumps(v.items[i], sort_keys, ensure_ascii)]) \o <<93>>
    ELSE With(IF sort_keys THEN sorted_items(v.pairs) ELSE v.pairs, LAMBDA items :
             <<123>> \o JoinComma([i \in 1..Len(items) |->
                            json_string(items[i][1], ensure_ascii) \o <<58>>
                                \o json_dumps(items[i][2], sort_keys, ensure_ascii)])
                 \o <<125>>)

\* json.loads: the scanner skips blanks between tokens
RECURSIVE skip_ws(_, _)
skip_ws(s, i) ==
    IF i <= Len(s) /\ s[i] \in {32, 9, 10, 13} THEN skip_ws(s, i + 1) ELSE i

\* the value of one hexadecimal digit, -1 for any other character
HexVal(c) ==
    IF c >= 48 /\ c <= 57 THEN c - 48
    ELSE IF c >= 97 /\ c <= 102 THEN c - 87
    ELSE IF c >= 65 /\ c <= 70 THEN c - 55
    ELSE -1

NoParse == [ok |-> FALSE]
Parsed(v, i) == [ok |-> TRUE, v |-> v, i |-> i]

\* json.loads: the characters of a string literal from position j on, up to
\* the closing quote
RECURSIVE parse_chars(_, _, _)
parse_chars(s, j, acc) ==
    IF j > Len(s) THEN NoParse
    ELSE IF s[j] = 34 THEN Parsed(acc, j + 1)
    ELSE IF s[j] < 32 THEN NoParse
    ELSE LET e == IF j + 1 <= Len(s) THEN s[j + 1] ELSE 0
             width ==
                 IF s[j] # 92 THEN 1
                 ELSE IF e \in {34, 92, 47, 110, 114, 116, 98, 102} THEN 2
                 ELSE IF e = 117 /\ j + 5 <= Len(s)
                         /\ \A k \in 2..5 : HexVal(s[j + k]) >= 0
                      THEN 6
                 ELSE 0
             cp == IF width = 1 THEN s[j]
                   ELSE IF width = 6
                        THEN HexVal(s[j + 2]) * 4096 + HexVal(s[j + 3]) * 256
                                 + HexVal(s[j + 4]) * 16 + HexVal(s[j + 5])
                   ELSE CASE e = 110 -> 10 [] e = 114 -> 13 [] e = 116 -> 9
                          [] e = 98 -> 8 [] e = 102 -> 12 [] OTHER -> e
             next == <<j + width, Append(acc, cp)>>
         IN  IF width = 0 THEN NoParse
             ELSE IF next[1] > j THEN parse_chars(s, next[1], next[2])
             ELSE NoParse

\* json.loads: the digits of an integer from position j on
RECURSIVE parse_digits(_, _, _)
parse_digits(s, j, acc) ==
    IF j <= Len(s) /\ s[j] >= 48 /\ s[j] <= 57
    THEN LET next == acc * 10 + (s[j] - 48)
         IN  IF next >= 0 THEN parse_digits(s, j + 1, next) ELSE NoParse
    ELSE Parsed(acc, j)

\* json.loads: an integer at position i
parse_int(s, i) ==
    LET neg == s[i] = 45
        j == IF neg THEN i + 1 ELSE i
    IN  With(parse_digits(s, j, 0), LAMBDA r :
            IF ~r.ok \/ r.i = j THEN NoParse
            ELSE Parsed(PyInt(IF neg THEN 0 - r.v ELSE r.v), r.i))

\* json.loads: one value at position i, its array items and object members.
\* Floats and booleans are not among the values written here.
RECURSIVE parse_value(_, _), parse_items(_, _, _), parse_members(_, _, _)
parse_value(s, i0) ==
    LET i == skip_ws(s, i0)
    IN  IF i > Len(s) THEN NoParse
        ELSE IF s[i] = 110
             THEN IF i + 3 <= Len(s) /\ SubSeq(s, i, i + 3) = <<110, 117, 108, 108>>
                  THEN Parsed(PyNone, i + 4) ELSE NoParse
        ELSE IF s[i] = 34
             THEN With(parse_chars(s, i + 1, <<>>), LAMBDA r :
                      IF r.ok THEN Parsed(PyStr(r.v), r.i) ELSE NoParse)
        ELSE IF s[i] = 45 \/ (s[i] >= 48 /\ s[i] <= 57) THEN parse_int(s, i)
        ELSE IF s[i] = 91
             THEN LET j == skip_ws(s, i + 1)
                  IN  IF j <= Len(s) /\ s[j] = 93 THEN Parsed(PyList(<<>>), j + 1)
                      ELSE parse_items(s, j, <<>>)
        ELSE IF s[i] = 123
             THEN LET j == skip_ws(s, i + 1)
                  IN  IF j <= Len(s) /\ s[j] = 125 THEN Parsed(PyDict(<<>>), j + 1)
                      ELSE parse_members(s, j, <<>>)
        ELSE NoParse

parse_items(s, i, acc) ==
    With(parse_value(s, i), LAMBDA r :
        IF ~r.ok THEN NoParse
        ELSE LET j == skip_ws(s, r.i)
             IN  IF j > Len(s) THEN NoParse
                 ELSE IF s[j] = 93 THEN Parsed(PyList(Append(acc, r.v)), j + 1)
                 ELSE IF s[j] = 44 THEN parse_items(s, j + 1, Append(acc, r.v))
                 ELSE NoParse)

parse_members(s, i0, acc) ==
    LET i == skip_ws(s, i0)
        key == IF i <= Len(s) /\ s[i] = 34 THEN parse_chars(s, i + 1, <<>>) ELSE NoParse
    IN  With(key, LAMBDA k :
        IF ~k.ok THEN NoParse
        ELSE LET c == skip_ws(s, k.i)
                 value == IF c <= Len(s) /\ s[c] = 58 THEN parse_value(s, c + 1)
                          ELSE NoParse
             IN  With(value, LAMBDA r :
                 IF ~r.ok THEN NoParse
                 ELSE LET j == skip_ws(s, r.i)
                      IN  IF j > Len(s) THEN NoParse
                          ELSE IF s[j] = 125
                               THEN Parsed(PyDict(dict_set(acc, k.v, r.v)), j + 1)
                          ELSE IF s[j] = 44
                               THEN parse_members(s, j + 1, dict_set(acc, k.v, r.v))
                          ELSE NoParse))

\* json.loads(s)
json_loads(s) ==
    With(parse_value(s, 1), LAMBDA r :
        IF r.ok /\ skip_ws(s, r.i) > Len(s) THEN [st |-> "ok", v |-> r.v]
        ELSE Raise("JSONDecodeError"))

\* d.get(key, default) on a dict's items
dict_get(pairs, key, default) ==
    IF \E i \in 1..Len(pairs) : pairs[i][1] = key
    THEN pairs[CHOOSE i \in 1..Len(pairs) : pairs[i][1] = key][2]
    ELSE default

\* ------------------------------------------------------------------------
\* snapshot_v07 and snapshot_v08: the containers
\* ------------------------------------------------------------------------

\* the str literals of the snapshot code and of VolumeSpecV06's fields
Vocabulary ==
    {"uint8", "uint16", "float32", "C_CONTIG", "F_CONTIG", "MORTON", "C",
    "F", "K", "0.7", "0.8", "SNAPSHOT_V07", "CIVD_SNAPSHOT", "version",
    "layout", "dims", "channels", "dtype", "signature", "meta", ""}

\* the code points of one of these literals
Text(name) ==
    CASE name = "uint8" -> <<117, 105, 110, 116, 56>>
      [] name = "uint16" -> <<117, 105, 110, 116, 49, 54>>
      [] name = "float32" -> <<102, 108, 111, 97, 116, 51, 50>>
      [] name = "C_CONTIG" -> <<67, 95, 67, 79, 78, 84, 73, 71>>
      [] name = "F_CONTIG" -> <<70, 95, 67, 79, 78, 84, 73, 71>>
      [] name = "MORTON" -> <<77, 79, 82, 84, 79, 78>>
      [] name = "C" -> <<67>>
      [] name = "F" -> <<70>>
      [] name = "K" -> <<75>>
      [] name = "0.7" -> <<48, 46, 55>>
      [] name = "0.8" -> <<48, 46, 56>>
      [] name = "SNAPSHOT_V07" -> <<83, 78, 65, 80, 83, 72, 79, 84, 95, 86, 48, 55>>
      [] name = "CIVD_SNAPSHOT" -> <<67, 73, 86, 68, 95, 83, 78, 65, 80, 83, 72, 79, 84>>
      [] name = "version" -> <<118, 101, 114, 115, 105, 111, 110>>
      [] name = "layout" -> <<108, 97, 121, 111, 117, 116>>
      [] name = "dims" -> <<100, 105, 109, 115>>
      [] name = "channels" -> <<99, 104, 97, 110, 110, 101, 108, 115>>
      [] name = "dtype" -> <<100, 116, 121, 112, 101>>
      [] name = "signature" -> <<115, 105, 103, 110, 97, 116, 117, 114, 101>>
      [] name = "meta" -> <<109, 101, 116, 97>>
      [] name = "" -> <<>>

\* the literal with the given code points, "?" for any other str
Name(s) ==
    IF \E name \in Vocabulary : Text(name) = s
    THEN CHOOSE name \in Vocabulary : Text(name) = s
    ELSE "?"

\* str(v), for the values a header dict holds
py_str(v) ==
    IF v.t = "str" THEN v.s
    ELSE IF v.t = "int" THEN int_to_str(v.n)
    ELSE <<78, 111, 110, 101>>

\* snapshot_v07.MAGIC = b"CIVD-SNAP7\n"
MAGIC_SNAP7 == <<67, 73, 86, 68, 45, 83, 78, 65, 80, 55, 10>>
MAGIC_LEN == 11
\* _HEADER_LEN_STRUCT.size
HEADER_LEN_SIZE == 4

\* _build_header_dict(spec, meta)
build_header_dict(sp, meta) ==
    PyDict(<<<<Text("version"), PyStr(Text("0.7"))>>,
             <<Text("layout"), PyStr(Text("SNAPSHOT_V07"))>>,
             <<Text("dims"), PyList([i \in 1..3 |-> PyInt(sp.dims[i])])>>,
             <<Text("channels"), PyInt(sp.channels)>>,
             <<Text("dtype"), PyStr(Text(sp.dtype))>>,
             <<Text("signature"), PyStr(Text(sp.signature))>>,
             <<Text("meta"), meta>>>>)

\* _header_from_dict(d): a SnapshotHeaderV07
header_from_dict(d) ==
    LET dm == dict_get(d.pairs, Text("dims"), PyList(<<PyInt(0), PyInt(0), PyInt(0)>>))
    IN  [version   |-> py_str(dict_get(d.pairs, Text("version"), PyStr(<<>>))),
         layout    |-> py_str(dict_get(d.pairs, Text("layout"), PyStr(<<>>))),
         dims      |-> [i \in 1..Len(dm.items) |-> dm.items[i].n],
         channels  |-> dict_get(d.pairs, Text("channels"), PyInt(0)).n,
         dtype     |-> py_str(dict_get(d.pairs, Text("dtype"), PyStr(Text("uint8")))),
         signature |-> py_str(dict_get(d.pairs, Text("signature"),
                                       PyStr(Text("C_CONTIG")))),
         meta      |-> dict_get(d.pairs, Text("meta"), PyNone)]

\* _spec_from_header(hdr)
spec_from_header(hdr) ==
    VolumeSpecV06(hdr.dims, hdr.channels, Name(hdr.dtype), "C", Name(hdr.signature))

\* write_snapshot_v07(volume_bytes, spec, meta): (blob, header), or the
\* error raised
write_snapshot_v07(volume_bytes, sp, meta) ==
    IF Len(volume_bytes) # expected_nbytes(sp) THEN Raise("ValueError")
    ELSE LET header_dict == build_header_dict(sp, meta)
             header_json == utf8_encode(json_dumps(header_dict, TRUE, TRUE))
         IN  [st |-> "ok",
              blob |-> MAGIC_SNAP7 \o PackU32(Len(header_json)) \o header_json
                           \o volume_bytes,
              header |-> header_from_dict(header_dict)]

\* read_snapshot_v07(data): (header, spec, volume_bytes), or the error raised
read_snapshot_v07(data) ==
    IF Len(data) < MAGIC_LEN + HEADER_LEN_SIZE THEN Raise("ValueError")
    ELSE IF Slice(data, 0, MAGIC_LEN) # MAGIC_SNAP7 THEN Raise("ValueError")
    ELSE LET header_len == UnpackU32(Slice(data, MAGIC_LEN, MAGIC_LEN + HEADER_LEN_SIZE))
             offset == MAGIC_LEN + HEADER_LEN_SIZE
             volume_bytes == Slice(data, offset + header_len, Len(data))
         IN  IF Len(data) < offset + header_len THEN Raise("ValueError")
             ELSE With(utf8_decode(Slice(data, offset, offset + header_len)), LAMBDA text :
             IF text.st # "ok" THEN text
             ELSE With(json_loads(text.s), LAMBDA parsed :
             IF parsed.st # "ok" THEN parsed
             ELSE IF parsed.v.t # "dict" THEN Raise("AttributeError")
             ELSE With(header_from_dict(parsed.v), LAMBDA hdr :
             IF hdr.layout # Text("SNAPSHOT_V07") THEN Raise("ValueError")
             ELSE IF Len(volume_bytes) # expected_nbytes(spec_from_header(hdr))
                  THEN Raise("ValueError")
             ELSE [st |-> "ok", header |-> hdr, spec |-> spec_from_header(hdr),
                   payload |-> volume_bytes])))

\* read_roi_from_snapshot_v07(data, roi, channels)
read_roi_from_snapshot_v07(data, r, sel) ==
    With(read_snapshot_v07(data), LAMBDA snap :
        IF snap.st # "ok" THEN snap
        ELSE read_region_from_bytes(snap.payload, snap.spec,
                                    clamp_roi(r, snap.spec.dims), sel))

\* snapshot_v08.MAGIC_SNAP_V08 = b"CIVDSNAP"
MAGIC_SNAP_V08 == <<67, 73, 86, 68, 83, 78, 65, 80>>
\* the version number in the v0.8 prefix
SNAP_VERSION_V08 == 8
\* _SNAP_PREFIX.size and _SNAP_CORE.size
SNAP_PREFIX_SIZE == 12
SNAP_CORE_SIZE == 28

\* DTYPE_CODE, SIG_CODE, ORDER_CODE: 0 stands for "not in the table"
DTYPE_CODE(dtype) ==
    CASE dtype = "uint8" -> 1 [] dtype = "uint16" -> 2 [] dtype = "float32" -> 3
      [] OTHER -> 0
SIG_CODE(signature) ==
    CASE signature = "C_CONTIG" -> 1 [] signature = "F_CONTIG" -> 2 [] OTHER -> 0
ORDER_CODE(order) == CASE order = "C" -> 1 [] order = "F" -> 2 [] OTHER -> 0

\* DTYPE_NAME, SIG_NAME, ORDER_NAME: "?" stands for "not in the table"
DTYPE_NAME(code) ==
    CASE code = 1 -> "uint8" [] code = 2 -> "uint16" [] code = 3 -> "float32"
      [] OTHER -> "?"
SIG_NAME(code) == CASE code = 1 -> "C_CONTIG" [] code = 2 -> "F_CONTIG" [] OTHER -> "?"
ORDER_NAME(code) == CASE code = 1 -> "C" [] code = 2 -> "F" [] OTHER -> "?"

\* a length prefix that counts characters where the reader counts bytes
pack_lp_string_chars(s) == PackU32(Len(s)) \o utf8_encode(s)

\* _pack_lp_string(s)
pack_lp_string(s) == LET b == utf8_encode(s) IN PackU32(Len(b)) \o b

\* _unpack_lp_string(blob, offset): (s, offset), or the error raised
unpack_lp_string(b, offset) ==
    IF offset + 4 > Len(b) THEN Raise("struct.error")
    ELSE LET n == UnpackU32(Slice(b, offset, offset + 4))
         IN  With(utf8_decode(Slice(b, offset + 4, offset + 4 + n)), LAMBDA text :
                 IF text.st # "ok" THEN text
                 ELSE [st |-> "ok", s |-> text.s, offset |-> offset + 4 + n])

\* a prefix whose header_len field is wide enough for any header
prefix_fits_any(header_len) == TRUE

\* _SNAP_PREFIX.pack: header_len is an "H" field
prefix_fits(header_len) == header_len \in 0..U16_MAX

\* write_snapshot_v08(path, volume_buf, spec, meta, schema_id,
\* schema_version): the header returned and the bytes written at path, or the
\* error raised (nothing is written then)
write_snapshot_v08(volume_buf, sp, meta0, schema_id, schema_version) ==
    LET meta == IF meta0.t = "null" THEN PyDict(<<>>) ELSE meta0
        meta_json == json_dumps(meta, FALSE, FALSE)
        core == PackU32(sp.dims[1]) \o PackU32(sp.dims[2]) \o PackU32(sp.dims[3])
                    \o PackU32(sp.channels) \o PackU16(DTYPE_CODE(sp.dtype))
                    \o PackU16(SIG_CODE(sp.signature)) \o <<ORDER_CODE(sp.order)>>
                    \o Zeros(7)
        tail == pack_lp_string(schema_id) \o pack_lp_string(schema_version)
                    \o pack_lp_string(meta_json)
        header_len == SNAP_PREFIX_SIZE + Len(core) + Len(tail)
        prefix == MAGIC_SNAP_V08 \o PackU16(SNAP_VERSION_V08) \o PackU16(header_len)
    IN  IF DTYPE_CODE(sp.dtype) = 0 THEN Raise("ValueError")
        ELSE IF SIG_CODE(sp.signature) = 0 THEN Raise("ValueError")
        ELSE IF ORDER_CODE(sp.order) = 0 THEN Raise("ValueError")
        ELSE IF \E v \in {sp.dims[1], sp.dims[2], sp.dims[3], sp.channels} : v < 0
             THEN Raise("struct.error")
        ELSE IF ~prefix_fits(header_len) THEN Raise("struct.error")
        ELSE IF Len(volume_buf) # expected_nbytes(sp) THEN Raise("ValueError")
        ELSE [st |-> "ok",
              file |-> prefix \o core \o tail \o volume_buf,
              header |-> [version |-> Text("0.8"), schema_id |-> schema_id,
                          schema_version |-> schema_version, dims |-> sp.dims,
                          channels |-> sp.channels, dtype |-> sp.dtype,
                          signature |-> sp.signature, order |-> sp.order,
                          meta |-> meta]]

\* a reader that looks at the magic alone
not_v08_prefix_by_magic(magic, ver) == magic # MAGIC_SNAP_V08

\* read_snapshot_v08: magic != MAGIC_SNAP_V08 or ver != 8
not_v08_prefix(magic, ver) == magic # MAGIC_SNAP_V08 \/ ver # SNAP_VERSION_V08

\* read_snapshot_v08(path), on the bytes at path: (header, spec, payload), or
\* the error raised
read_snapshot_v08(b) ==
    IF Len(b) < SNAP_PREFIX_SIZE THEN Raise("struct.error")
    ELSE IF not_v08_prefix(Slice(b, 0, 8), UnpackU16(Slice(b, 8, 10)))
         THEN Raise("ValueError")
    ELSE IF Len(b) < SNAP_PREFIX_SIZE + SNAP_CORE_SIZE THEN Raise("struct.error")
    ELSE LET header_len == UnpackU16(Slice(b, 10, 12))
             dm == <<UnpackU32(Slice(b, 12, 16)), UnpackU32(Slice(b, 16, 20)),
                     UnpackU32(Slice(b, 20, 24))>>
             ch == UnpackU32(Slice(b, 24, 28))
             dtype == DTYPE_NAME(UnpackU16(Slice(b, 28, 30)))
             signature == SIG_NAME(UnpackU16(Slice(b, 30, 32)))
             order == ORDER_NAME(b[33])
             sp == VolumeSpecV06(dm, ch, dtype, order, signature)
             payload == Slice(b, header_len, Len(b))
             meta_of(mjson) == IF Len(mjson.s) > 0 THEN json_loads(mjson.s)
                               ELSE [st |-> "ok", v |-> PyDict(<<>>)]
         IN  IF dtype = "?" \/ signature = "?" \/ order = "?" THEN Raise("ValueError")
             ELSE With(unpack_lp_string(b, SNAP_PREFIX_SIZE + SNAP_CORE_SIZE), LAMBDA sid :
             IF sid.st # "ok" THEN sid
             ELSE With(unpack_lp_string(b, sid.offset), LAMBDA sver :
             IF sver.st # "ok" THEN sver
             ELSE With(unpack_lp_string(b, sver.offset), LAMBDA mjson :
             IF mjson.st # "ok" THEN mjson
             ELSE IF mjson.offset # header_len THEN Raise("ValueError")
             ELSE With(meta_of(mjson), LAMBDA parsed :
             IF parsed.st # "ok" THEN parsed
             ELSE IF Len(payload) # expected_nbytes(sp) THEN Raise("ValueError")
             ELSE [st |-> "ok",
                   header |-> [version |-> Text("0.8"), schema_id |-> sid.s,
                               schema_version |-> sver.s, dims |-> dm,
                               channels |-> ch, dtype |-> dtype,
                               signature |-> signature, order |-> order,
                               meta |-> parsed.v],
                   spec |-> sp, payload |-> payload]))))

\* read_roi_from_snapshot_v08(path, x, y, z, w, h, d, channels)
read_roi_from_snapshot_v08(b, r, sel) ==
    With(read_snapshot_v08(b), LAMBDA snap :
        IF snap.st # "ok" THEN snap
        ELSE read_region_from_bytes(snap.payload, snap.spec, r, sel))

\* ------------------------------------------------------------------------
\* ci3_types and ci3_codec: the legacy v0.1 and v0.2 codecs
\* ------------------------------------------------------------------------

\* ci3_types.VERSION_V01, VERSION_V02
VERSION_V01 == 1
VERSION_V02 == 2
\* ci3_types.DEFAULT_DIMS, DEFAULT_CHANNELS: the fixed v0.1 geometry
DEFAULT_DIMS == <<16, 16, 16>>
DEFAULT_CHANNELS == 1
\* ci3_types.DIMS_V02, CHANNELS_V02: the fixed v0.2 geometry
DIMS_V02 == <<16, 16, 16>>
CHANNELS_V02 == 4
\* ci3_types.MAX_PAYLOAD_V01
MAX_PAYLOAD_V01 ==
    DEFAULT_DIMS[1] * DEFAULT_DIMS[2] * DEFAULT_DIMS[3] * DEFAULT_CHANNELS

\* CI3Header(...) with the dataclass defaults for magic and the reserved fields
CI3Header(version, dm, ch, orig_length) ==
    [magic |-> MAGIC, version |-> version,
     dim_x |-> dm[1], dim_y |-> dm[2], dim_z |-> dm[3],
     channels |-> ch, reserved1 |-> <<0, 0, 0>>,
     orig_length |-> orig_length, reserved2 |-> 0]

\* ci3_types.CI3Header.validate_basic: TRUE when no check raises
validate_basic_v01(h) ==
    /\ h.magic = MAGIC
    /\ h.version = VERSION_V01
    /\ <<h.dim_x, h.dim_y, h.dim_z>> = DEFAULT_DIMS
    /\ h.channels = DEFAULT_CHANNELS
    /\ h.reserved1 = <<0, 0, 0>>
    /\ h.reserved2 = 0

\* decode_ci3_v02's manual validation: TRUE when no check raises (the
\* reserved fields are not looked at)
validate_v02(h) ==
    /\ h.magic = MAGIC
    /\ h.version = VERSION_V02
    /\ <<h.dim_x, h.dim_y, h.dim_z>> = DIMS_V02
    /\ h.channels = CHANNELS_V02

\* encode_bytes_to_ci3(data)
encode_bytes_to_ci3(data) ==
    IF Len(data) > MAX_PAYLOAD_V01 THEN Raise("ValueError")
    ELSE LET volume_size == dims_to_volume_size(DEFAULT_DIMS[1], DEFAULT_DIMS[2],
                                                DEFAULT_DIMS[3], DEFAULT_CHANNELS)
             header == CI3Header(VERSION_V01, DEFAULT_DIMS, DEFAULT_CHANNELS, Len(data))
         IN  With(<<>> \o [i \in 1..volume_size |-> IF i <= Len(data) THEN data[i] ELSE 0],
                  LAMBDA volume :
                      [st |-> "ok",
                       bytes |-> HeaderPack(header) \o volume \o Crc32(volume)])

\* encode_bytes_to_ci3_v02(data): voxel i holds (payload, 255, 0, 0)
encode_bytes_to_ci3_v02(data) ==
    LET num_voxels == DIMS_V02[1] * DIMS_V02[2] * DIMS_V02[3]
        volume_size == num_voxels * CHANNELS_V02
        header == CI3Header(VERSION_V02, DIMS_V02, CHANNELS_V02, Len(data))
        voxel_byte(k) ==
            LET i == (k - 1) \div CHANNELS_V02
                c == (k - 1) % CHANNELS_V02
            IN  IF c = 0 THEN (IF i < Len(data) THEN data[i + 1] ELSE 0)
                ELSE IF c = 1 THEN 255
                ELSE 0
    IN  IF Len(data) > num_voxels THEN Raise("ValueError")
        ELSE With(<<>> \o [k \in 1..volume_size |-> voxel_byte(k)], LAMBDA volume :
                 [st |-> "ok",
                  bytes |-> HeaderPack(header) \o volume \o Crc32(volume)])

\* the steps of a legacy decoder, in the order the code takes them: the
\* minimum-length check, header validation, the exact-size check, the CRC
\* comparison, the orig_length check, and the copy of the payload
DecodeSteps == <<"short", "header", "size", "crc", "orig_length", "copy">>

\* a decoder that raised at step k, having run steps 1..k
Stopped(k) == [st |-> "err", kind |-> "ValueError", ran |-> SubSeq(DecodeSteps, 1, k)]

\* a decoder that compares no checksum
crc_mismatch_never(calc, stored) == FALSE

\* crc32_calc != crc32_stored
crc_mismatch(calc, stored) == calc # stored

\* decode_ci3(data): (recovered, header) and the steps run, or the error
\* raised and the steps run up to it
decode_ci3(data) ==
    IF Len(data) < HEADER_SIZE + FOOTER_SIZE THEN Stopped(1)
    ELSE With(HeaderUnpack(Slice(data, 0, HEADER_SIZE)), LAMBDA header :
         IF ~validate_basic_v01(header) THEN Stopped(2)
         ELSE LET volume_size == dims_to_volume_size(header.dim_x, header.dim_y,
                                                     header.dim_z, header.channels)
                  expected_size == HEADER_SIZE + volume_size + FOOTER_SIZE
                  volume_end == HEADER_SIZE + volume_size
              IN  IF Len(data) # expected_size THEN Stopped(3)
                  ELSE With(Slice(data, HEADER_SIZE, volume_end), LAMBDA volume_bytes :
                       IF crc_mismatch(Crc32(volume_bytes),
                                       Slice(data, volume_end, volume_end + FOOTER_SIZE))
                       THEN Stopped(4)
                       ELSE IF header.orig_length > volume_size THEN Stopped(5)
                       ELSE [st |-> "ok",
                             payload |-> Slice(volume_bytes, 0, header.orig_length),
                             header |-> header, ran |-> DecodeSteps]))

\* a v0.2 decoder that takes the first orig_length bytes of the voxel region,
\* whatever channel they belong to
decode_ci3_v02_packed(data) ==
    IF Len(data) < HEADER_SIZE + FOOTER_SIZE THEN Stopped(1)
    ELSE With(HeaderUnpack(Slice(data, 0, HEADER_SIZE)), LAMBDA header :
         IF ~validate_v02(header) THEN Stopped(2)
         ELSE LET num_voxels == header.dim_x * header.dim_y * header.dim_z
                  volume_size == num_voxels * header.channels
                  expected_size == HEADER_SIZE + volume_size + FOOTER_SIZE
                  volume_end == HEADER_SIZE + volume_size
              IN  IF Len(data) # expected_size THEN Stopped(3)
                  ELSE With(Slice(data, HEADER_SIZE, volume_end), LAMBDA volume_bytes :
                       IF crc_mismatch(Crc32(volume_bytes),
                                       Slice(data, volume_end, volume_end + FOOTER_SIZE))
                       THEN Stopped(4)
                       ELSE IF header.orig_length > num_voxels THEN Stopped(5)
                       ELSE [st |-> "ok",
                             payload |-> Slice(volume_bytes, 0, header.orig_length),
                             header |-> header, ran |-> DecodeSteps]))

\* decode_ci3_v02(data): the payload is byte 0 of each of the first
\* orig_length voxels
decode_ci3_v02(data) ==
    IF Len(data) < HEADER_SIZE + FOOTER_SIZE THEN Stopped(1)
    ELSE With(HeaderUnpack(Slice(data, 0, HEADER_SIZE)), LAMBDA header :
         IF ~validate_v02(header) THEN Stopped(2)
         ELSE LET num_voxels == header.dim_x * header.dim_y * header.dim_z
                  volume_size == num_voxels * header.channels
                  expected_size == HEADER_SIZE + volume_size + FOOTER_SIZE
                  volume_end == HEADER_SIZE + volume_size
              IN  IF Len(data) # expected_size THEN Stopped(3)
                  ELSE With(Slice(data, HEADER_SIZE, volume_end), LAMBDA volume_bytes :
                       IF crc_mismatch(Crc32(volume_bytes),
                                       Slice(data, volume_end, volume_end + FOOTER_SIZE))
                       THEN Stopped(4)
                       ELSE IF header.orig_length > num_voxels THEN Stopped(5)
                       ELSE [st |-> "ok",
                             payload |-> <<>> \o [i \in 1..header.orig_length |->
                                             volume_bytes[(i - 1) * header.channels + 1]],
                             header |-> header, ran |-> DecodeSteps]))

\* ------------------------------------------------------------------------
\* Tiles per axis on Python's unbounded integers
\* ------------------------------------------------------------------------

\* A volume side is a Python int of any size.  A wide integer <<hi, lo>> is
\* hi * 2^27 + lo with 0 <= lo < 2^27; it reaches past 2^53, up to which a
\* float holds every whole number.  Divisors are tile sides, below 16.
Limb == 2^27

WideOf(n) == <<n \div Limb, n % Limb>>

\* w + n for a small n (of either sign) and a result that is not negative
WideAdd(w, n) ==
    IF w[2] + n < 0 THEN <<w[1] - 1, w[2] + n + Limb>>
    ELSE <<w[1] + ((w[2] + n) \div Limb), (w[2] + n) % Limb>>

\* divmod(w, t) by long division, the upper limb first
WideDivMod(w, t) ==
    LET c == (w[1] % t) * Limb + w[2]
    IN  [q |-> <<w[1] \div t, c \div t>>, r |-> c % t]

WideIsZero(w) == w[1] = 0 /\ w[2] = 0

\* the whole number ceil(x / t) of mathematics, for a positive t
WideCeil(x, t) ==
    LET d == WideDivMod(x, t) IN IF d.r = 0 THEN d.q ELSE WideAdd(d.q, 1)

\* ceil_div of TileGridSpecV07.grid_dims and the (x + sx - 1) // sx of
\* compute_tiling_spec_v08: integer arithmetic throughout
ceil_divW(a, b) == WideDivMod(WideAdd(a, b - 1), b).q

\* math.ceil(x / t) as Python computes it: x / t is the double nearest the
\* quotient (53 bits, ties to the even mantissa), and math.ceil rounds that
\* double up.  With q, r = divmod(x, t): from 2^53 the doubles are the even
\* numbers, from 2^52 the whole numbers, from 2^51 the halves, and so on.
math_ceil_truediv(x, t) ==
    LET d == WideDivMod(x, t)
        q == d.q
        r == d.r
        odd == q[2] % 2 = 1
        up == WideAdd(q, 1)
    IN  IF q[1] >= 2^26
        THEN IF ~odd THEN q
             ELSE IF r > 0 THEN up
             ELSE IF (q[2] - 1) % 4 = 0 THEN WideAdd(q, -1) ELSE up
        ELSE IF q[1] >= 2^25
        THEN IF 2 * r < t THEN q
             ELSE IF 2 * r > t THEN up
             ELSE IF odd THEN up ELSE q
        ELSE IF q[1] >= 2^24 THEN (IF 4 * r <= t THEN q ELSE up)
        ELSE IF q[1] >= 2^23 THEN (IF 8 * r <= t THEN q ELSE up)
        ELSE IF q[1] >= 2^22 THEN (IF 16 * r <= t THEN q ELSE up)
        ELSE IF r = 0 THEN q ELSE up

\* TileGridSpecV07(dims, tile).grid_dims(): __post_init__ raises unless the
\* dims and the tile are all positive
grid_dimsW(dm, tl) ==
    IF WideIsZero(dm[1]) \/ WideIsZero(dm[2]) \/ WideIsZero(dm[3])
    THEN Raise("ValueError")
    ELSE IF tl[1] <= 0 \/ tl[2] <= 0 \/ tl[3] <= 0 THEN Raise("ValueError")
    ELSE [st |-> "ok",
          tiles |-> <<ceil_divW(dm[1], tl[1]), ceil_divW(dm[2], tl[2]),
                      ceil_divW(dm[3], tl[3])>>]

\* tile_pack_v07._compute_tiles_per_axis
compute_tiles_per_axisW(volume_dims, tile_size) ==
    IF tile_size[1] <= 0 \/ tile_size[2] <= 0 \/ tile_size[3] <= 0
    THEN Raise("ValueError")
    ELSE [st |-> "ok",
          tiles |-> <<math_ceil_truediv(volume_dims[1], tile_size[1]),
                      math_ceil_truediv(volume_dims[2], tile_size[2]),
                      math_ceil_truediv(volume_dims[3], tile_size[3])>>]

\* compute_tiling_spec_v08(...).tiles_per_axis
compute_tiling_spec_v08(volume_dims, tile_size) ==
    IF tile_size[1] <= 0 \/ tile_size[2] <= 0 \/ tile_size[3] <= 0
    THEN Raise("ValueError")
    ELSE [st |-> "ok",
          tiles |-> <<ceil_divW(volume_dims[1], tile_size[1]),
                      ceil_divW(volume_dims[2], tile_size[2]),
                      ceil_divW(volume_dims[3], tile_size[3])>>]

\* ------------------------------------------------------------------------
\* tile_pack_v07: slicing a volume buffer into tiles
\* ------------------------------------------------------------------------

\* _full_volume_view: the (z, y, x, channels) view of the whole buffer, or
\* the error raised; unlike _volume_view_from_bytes it reads no signature
full_volume_view(b, sp) ==
    IF Len(b) # expected_nbytes(sp) THEN Raise("ValueError")
    ELSE IF sp.order \notin {"C", "F"} THEN Raise("ValueError")
    ELSE LET shape == <<sp.dims[3], sp.dims[2], sp.dims[1], sp.channels>>
         IN  [st |-> "ok", shape |-> shape,
              data |-> [t \in Indices4(shape) |->
                           frombuffer_at(b, sp.dtype,
                               view_index(shape, sp.order, t[1], t[2], t[3], t[4]))]]

\* element e of a serialization that runs the first axis fastest
tobytes_coords_F(e, shape) ==
    <<e % shape[1], (e \div shape[1]) % shape[2],
      (e \div (shape[1] * shape[2])) % shape[3],
      e \div (shape[1] * shape[2] * shape[3])>>

\* ndarray.tobytes(): element e (0-based) of the output is the element of the
\* array at these coordinates, the last axis running fastest
tobytes_coords(e, shape) ==
    <<e \div (shape[2] * shape[3] * shape[4]),
      (e \div (shape[3] * shape[4])) % shape[2],
      (e \div shape[4]) % shape[3],
      e % shape[4]>>

\* vol[z0:z1, y0:y1, x0:x1, :].tobytes() for elements of isz bytes
slice_tobytes(vol, isz, z0, z1, y0, y1, x0, x1) ==
    LET shape == <<z1 - z0, y1 - y0, x1 - x0, vol.shape[4]>>
        At(p) ==
            LET t == tobytes_coords((p - 1) \div isz, shape)
            IN  vol.data[<<z0 + t[1], y0 + t[2], x0 + t[3], t[4]>>][((p - 1) % isz) + 1]
    IN  <<>> \o [p \in 1..(shape[1] * shape[2] * shape[3] * shape[4] * isz) |-> At(p)]

\* tile_volume_buffer(buf, spec, tile_size): the TilingSpecV07 and the dict of
\* tile buffers, a function of the TileIndexV07 keys
tile_volume_buffer(b, sp, tile_size) ==
    LET per == compute_tiles_per_axis(sp.dims, tile_size)
        lo(i, n) == i * tile_size[n]
        hi(i, n) == Min(lo(i, n) + tile_size[n], sp.dims[n])
    IN  IF per.st # "ok" THEN per
        ELSE With(full_volume_view(b, sp), LAMBDA vol :
            IF vol.st # "ok" THEN vol
            ELSE LET visited == LoopZYX(0, per.tiles[3], 0, per.tiles[2], 0, per.tiles[1])
                     kept == {visited[k] : k \in
                                 {m \in DOMAIN visited :
                                     /\ ~(lo(visited[m].tz, 3) >= hi(visited[m].tz, 3))
                                     /\ ~(lo(visited[m].ty, 2) >= hi(visited[m].ty, 2))
                                     /\ ~(lo(visited[m].tx, 1) >= hi(visited[m].tx, 1))}}
                 IN  [st |-> "ok",
                      tiling_spec |-> TilingSpecV07(sp.dims, tile_size),
                      tiles |-> [idx \in kept |->
                          slice_tobytes(vol, itemsize(sp.dtype),
                              lo(idx.tz, 3), hi(idx.tz, 3), lo(idx.ty, 2), hi(idx.ty, 2),
                              lo(idx.tx, 1), hi(idx.tx, 1))]])

\* ------------------------------------------------------------------------
\* tiler_v07: tiling an array and assembling it again
\* ------------------------------------------------------------------------

\* An array is [shape, data]: data maps each index tuple of the shape to the
\* element there.

\* TileManifestV07 as make_manifest_for_volume builds it; g is the
\* TileGridSpecV07
TileManifestV07(g, ch, dtype) == [grid |-> g, channels |-> ch, dtype |-> dtype]

\* vol[z0:z1, y0:y1, x0:x1, :] of a 4D array; a slice stops at the array's
\* edge
np_slice4(vol, z0, z1, y0, y1, x0, x1) ==
    LET shape == <<Max(0, Min(z1, vol.shape[1]) - z0),
                   Max(0, Min(y1, vol.shape[2]) - y0),
                   Max(0, Min(x1, vol.shape[3]) - x0), vol.shape[4]>>
    IN  [shape |-> shape,
         data |-> [t \in Indices4(shape) |->
                      vol.data[<<z0 + t[1], y0 + t[2], x0 + t[3], t[4]>>]]]

\* tile_volume(vol, manifest): the dict of tile arrays, or the error raised
tile_volume(vol, manifest) ==
    LET g == manifest.grid
        gd == grid_dims(g)
        walk == LoopZYX(0, gd[3], 0, gd[2], 0, gd[1])
        cut(idx) ==
            LET b == tile_bounds(g, idx)
            IN  np_slice4(vol, b.z0, b.z1, b.y0, b.y1, b.x0, b.x1)
    IN  IF Len(vol.shape) # 4 THEN Raise("ValueError")
        ELSE IF <<vol.shape[3], vol.shape[2], vol.shape[1]>> # g.dims
             THEN Raise("ValueError")
        ELSE IF vol.shape[4] # manifest.channels THEN Raise("ValueError")
        ELSE [st |-> "ok",
              tiles |-> [idx \in {walk[k] : k \in DOMAIN walk} |-> cut(idx)]]

\* an array that starts out as zeros whatever the fill value
np_zeros_value(fill_value) == 0

\* np.full(shape, fill_value, dtype): the element every voxel starts with,
\* for a fill value that the dtype holds
np_full_value(fill_value) == fill_value

\* assemble_volume_from_tiles(manifest, tiles, fill_value). The loop visits
\* the grid tz, ty, tx; a visited tile that is present is checked and then
\* written over its bounds, so a voxel ends as the last write that covers it.
assemble_volume_from_tiles(manifest, tiles, fill_value) ==
    LET g == manifest.grid
        c == manifest.channels
        shape == <<g.dims[3], g.dims[2], g.dims[1], c>>
        gd == grid_dims(g)
        walk == LoopZYX(0, gd[3], 0, gd[2], 0, gd[1])
        present == {k \in DOMAIN walk : walk[k] \in DOMAIN tiles}
        box(k) == tile_bounds(g, walk[k])
        refused(k) ==
            LET tile == tiles[walk[k]]
                b == box(k)
            IN  \/ tile.shape[4] # c
                \/ <<b.z1 - b.z0, b.y1 - b.y0, b.x1 - b.x0>>
                      # <<tile.shape[1], tile.shape[2], tile.shape[3]>>
        covers(k, t) ==
            LET b == box(k)
            IN  /\ b.z0 <= t[1] /\ t[1] < b.z1 /\ b.y0 <= t[2] /\ t[2] < b.y1
                /\ b.x0 <= t[3] /\ t[3] < b.x1
        written(t) ==
            LET ks == {k \in present : covers(k, t)}
            IN  IF ks = {} THEN np_full_value(fill_value)
                ELSE LET k == CHOOSE m \in ks : \A n \in ks : n <= m
                         b == box(k)
                     IN  tiles[walk[k]].data[<<t[1] - b.z0, t[2] - b.y0, t[3] - b.x0, t[4]>>]
    IN  IF \E k \in present : refused(k) THEN Raise("ValueError")
        ELSE [st |-> "ok", shape |-> shape,
              data |-> [t \in Indices4(shape) |-> written(t)]]

\* ------------------------------------------------------------------------
\* tile_header_v08: the 64-byte header of a tile file
\* ------------------------------------------------------------------------

\* b"CIVDTILE"
MAGIC_TILE_V08 == <<67, 73, 86, 68, 84, 73, 76, 69>>
\* struct.Struct("<8s H H I 3I 3I I H H B 7x Q").size
TILE_HEADER_LEN_V08 == 64

\* DTYPE_CODE, SIGNATURE_CODE, ORDER_CODE and their inverses hold the entries
\* of snapshot_v08's tables: DTYPE_CODE, SIG_CODE, ORDER_CODE (0 for a name
\* not in the table) and DTYPE_NAME, SIG_NAME, ORDER_NAME ("?" for a code not
\* in the table).

\* struct "<Q" of a value below 2^31: eight bytes, low byte first
PackU64(n) == PackU32(n) \o Zeros(4)
\* struct "<Q" read back, for eight bytes that hold a value below 2^31
UnpackU64(s) == UnpackU32(s)

\* the dataclass TileHeaderV08
TileHeaderV08(ver, header_len, flags, tx, ty, tz, tile_size, channels, dtype,
              signature, order, payload_nbytes) ==
    [tile_format_ver |-> ver, header_len |-> header_len, flags |-> flags,
     tx |-> tx, ty |-> ty, tz |-> tz, tile_size |-> tile_size,
     channels |-> channels, dtype |-> dtype, signature |-> signature,
     order |-> order, payload_nbytes |-> payload_nbytes]

\* three "I" fields packed last element first
pack_3I_reversed(t) == PackU32(t[3]) \o PackU32(t[2]) \o PackU32(t[1])

\* the "3I" group of the struct: three "I" fields in the order given
pack_3I(t) == PackU32(t[1]) \o PackU32(t[2]) \o PackU32(t[3])

\* TileHeaderV08.to_bytes: the 64 bytes, or the error raised. struct.pack
\* raises struct.error for a negative value in an unsigned field; every
\* value here is below 2^31.
TileHeaderV08_to_bytes(h) ==
    IF h.tile_format_ver # 8 THEN Raise("ValueError")
    ELSE IF h.header_len # TILE_HEADER_LEN_V08 THEN Raise("ValueError")
    ELSE IF DTYPE_CODE(h.dtype) = 0 THEN Raise("ValueError")
    ELSE IF SIG_CODE(h.signature) = 0 THEN Raise("ValueError")
    ELSE IF ORDER_CODE(h.order) = 0 THEN Raise("ValueError")
    ELSE IF \E v \in {h.flags, h.tx, h.ty, h.tz, h.tile_size[1], h.tile_size[2],
                      h.tile_size[3], h.channels, h.payload_nbytes} : v < 0
         THEN Raise("struct.error")
    ELSE [st |-> "ok",
          bytes |-> MAGIC_TILE_V08 \o PackU16(h.tile_format_ver)
                    \o PackU16(h.header_len) \o PackU32(h.flags)
                    \o pack_3I(<<h.tx, h.ty, h.tz>>) \o pack_3I(h.tile_size)
                    \o PackU32(h.channels) \o PackU16(DTYPE_CODE(h.dtype))
                    \o PackU16(SIG_CODE(h.signature))
                    \o <<ORDER_CODE(h.order)>> \o Zeros(7)
                    \o PackU64(h.payload_nbytes)]

\* try_parse_tile_header_v08(blob): the header, or None
try_parse_tile_header_v08(blob) ==
    IF Len(blob) < TILE_HEADER_LEN_V08 THEN None
    ELSE IF Slice(blob, 0, 8) # MAGIC_TILE_V08 THEN None
    ELSE LET tile_format_ver == UnpackU16(Slice(blob, 8, 10))
             header_len == UnpackU16(Slice(blob, 10, 12))
             dtype == DTYPE_NAME(UnpackU16(Slice(blob, 44, 46)))
             signature == SIG_NAME(UnpackU16(Slice(blob, 46, 48)))
             order == ORDER_NAME(blob[49])
         IN  IF tile_format_ver # 8 THEN None
             ELSE IF header_len # TILE_HEADER_LEN_V08 THEN None
             ELSE IF dtype = "?" \/ signature = "?" \/ order = "?" THEN None
             ELSE [st |-> "ok",
                   hdr |-> TileHeaderV08(tile_format_ver, header_len,
                       UnpackU32(Slice(blob, 12, 16)), UnpackU32(Slice(blob, 16, 20)),
                       UnpackU32(Slice(blob, 20, 24)), UnpackU32(Slice(blob, 24, 28)),
                       <<UnpackU32(Slice(blob, 28, 32)), UnpackU32(Slice(blob, 32, 36)),
                         UnpackU32(Slice(blob, 36, 40))>>,
                       UnpackU32(Slice(blob, 40, 44)), dtype, signature, order,
                       UnpackU64(Slice(blob, 56, 64)))]

\* read_tile_file_payload_auto on a file that holds blob: (hdr, payload), or
\* the error raised
read_tile_file_payload_auto(blob) ==
    LET parsed == try_parse_tile_header_v08(blob)
    IN  IF parsed = None THEN [st |-> "ok", hdr |-> None, payload |-> blob]
        ELSE LET payload == Slice(blob, parsed.hdr.header_len, Len(blob))
             IN  IF Len(payload) # parsed.hdr.payload_nbytes THEN Raise("ValueError")
                 ELSE [st |-> "ok", hdr |-> parsed.hdr, payload |-> payload]

\* ------------------------------------------------------------------------
\* tile_pack_v07: tile file names
\* ------------------------------------------------------------------------

\* A str is the sequence of its code points.

\* "tile_tx", "_ty", "_tz" and ".bin"
NAME_HEAD == <<116, 105, 108, 101, 95, 116, 120>>
NAME_TY == <<95, 116, 121>>
NAME_TZ == <<95, 116, 122>>
NAME_TAIL == <<46, 98, 105, 110>>

\* a name that puts the coordinates in the order tz, ty, tx
tile_index_to_name_zyx(idx) ==
    NAME_HEAD \o int_to_str(idx.tz) \o NAME_TY \o int_to_str(idx.ty)
        \o NAME_TZ \o int_to_str(idx.tx) \o NAME_TAIL

\* tile_index_to_name(idx): f"tile_tx{idx.tx}_ty{idx.ty}_tz{idx.tz}.bin"
tile_index_to_name(idx) ==
    NAME_HEAD \o int_to_str(idx.tx) \o NAME_TY \o int_to_str(idx.ty)
        \o NAME_TZ \o int_to_str(idx.tz) \o NAME_TAIL

\* os.path.basename(name): what follows the last "/"
os_path_basename(name) ==
    LET slashes == {i \in 1..Len(name) : name[i] = 47}
    IN  IF slashes = {} THEN name
        ELSE LET last == CHOOSE i \in slashes : \A j \in slashes : j <= i
             IN  SubSeq(name, last + 1, Len(name))

\* s.split(sep) for a one-character sep
str_split(s, sep) ==
    LET cuts == SelectSeq(<<>> \o [i \in 1..Len(s) |-> i], LAMBDA i : s[i] = sep)
        from(k) == IF k = 1 THEN 1 ELSE cuts[k - 1] + 1
        upto(k) == IF k = Len(cuts) + 1 THEN Len(s) ELSE cuts[k] - 1
    IN  <<>> \o [k \in 1..(Len(cuts) + 1) |-> SubSeq(s, from(k), upto(k))]

\* s.strip(): without the ASCII blanks at both ends
str_strip(s) ==
    LET solid == {i \in 1..Len(s) : s[i] \notin {32, 9, 10, 11, 12, 13}}
    IN  IF solid = {} THEN <<>>
        ELSE SubSeq(s, CHOOSE i \in solid : \A j \in solid : i <= j,
                       CHOOSE i \in solid : \A j \in solid : j <= i)

\* the value of a run of decimal digits
RECURSIVE digits_value(_)
digits_value(s) ==
    IF Len(s) = 0 THEN 0
    ELSE 10 * digits_value(SubSeq(s, 1, Len(s) - 1)) + (s[Len(s)] - 48)

\* int(s) of a str of ASCII characters: blanks around the number are
\* dropped, one sign may lead, and decimal digits follow (single underscores
\* may stand between digits); anything else raises ValueError
py_int(s) ==
    LET core == str_strip(s)
        signed == Len(core) > 0 /\ core[1] \in {43, 45}
        body == IF signed THEN Tail(core) ELSE core
        digits == SelectSeq(body, LAMBDA c : c # 95)
        wellFormed ==
            /\ Len(body) > 0 /\ body[1] # 95 /\ body[Len(body)] # 95
            /\ \A i \in 1..Len(body) :
                  \/ body[i] >= 48 /\ body[i] <= 57
                  \/ body[i] = 95 /\ body[i + 1] # 95
    IN  IF ~wellFormed THEN Raise("ValueError")
        ELSE [st |-> "ok",
              n |-> IF signed /\ core[1] = 45 THEN 0 - digits_value(digits)
                    ELSE digits_value(digits)]

\* name_to_tile_index(name): the TileIndexV07, or the error raised
name_to_tile_index(name) ==
    LET base == os_path_basename(name)
        core == SubSeq(base, 1, Len(base) - 4)
        parts == str_split(core, 95)
        tx == py_int(Slice(parts[2], 2, Len(parts[2])))
        ty == py_int(Slice(parts[3], 2, Len(parts[3])))
        tz == py_int(Slice(parts[4], 2, Len(parts[4])))
    IN  IF Slice(base, 0, 7) # NAME_HEAD
            \/ Len(base) < 4 \/ Slice(base, Len(base) - 4, Len(base)) # NAME_TAIL
        THEN Raise("ValueError")
        ELSE IF Len(parts) # 4 THEN Raise("ValueError")
        ELSE IF tx.st # "ok" \/ ty.st # "ok" \/ tz.st # "ok" THEN Raise("ValueError")
        ELSE [st |-> "ok", idx |-> TileIndexV07(tx.n, ty.n, tz.n)]

\* ------------------------------------------------------------------------
\* tile_pack_v07: writing a tile pack and loading its manifest
\* ------------------------------------------------------------------------

\* "tiling_manifest.json" and "civd.tilepack.v0.7"
TILE_MANIFEST_FILENAME == <<116, 105, 108, 105, 110, 103, 95, 109, 97, 110, 105, 102, 101, 115, 116, 46, 106, 115, 111, 110>>
TILE_MANIFEST_VERSION == <<99, 105, 118, 100, 46, 116, 105, 108, 101, 112, 97, 99, 107, 46, 118, 48, 46, 55>>

\* the keys of the manifest
KEY_VERSION == <<118, 101, 114, 115, 105, 111, 110>>
KEY_VOLUME_DIMS == <<118, 111, 108, 117, 109, 101, 95, 100, 105, 109, 115>>
KEY_TILE_SIZE == <<116, 105, 108, 101, 95, 115, 105, 122, 101>>
KEY_TILES_PER_AXIS == <<116, 105, 108, 101, 115, 95, 112, 101, 114, 95, 97, 120, 105, 115>>
KEY_TILES == <<116, 105, 108, 101, 115>>
KEY_TX == <<116, 120>>
KEY_TY == <<116, 121>>
KEY_TZ == <<116, 122>>
KEY_FILENAME == <<102, 105, 108, 101, 110, 97, 109, 101>>
KEY_NBYTES == <<110, 98, 121, 116, 101, 115>>

\* the parts joined by sep
RECURSIVE JoinWith(_, _)
JoinWith(parts, sep) ==
    IF Len(parts) = 0 THEN <<>>
    ELSE IF Len(parts) = 1 THEN parts[1]
    ELSE parts[1] \o sep \o JoinWith(Tail(parts), sep)

\* json.dumps(v, indent=2, sort_keys=...): an empty list or dict stays on
\* one line; otherwise every item goes on a line of its own, two blanks
\* deeper than its container, and ": " follows a key
RECURSIVE json_dumps_indent(_, _, _)
json_dumps_indent(v, sort_keys, level) ==
    LET inner == <<10>> \o [i \in 1..(2 * (level + 1)) |-> 32]
        outer == <<10>> \o [i \in 1..(2 * level) |-> 32]
    IN  IF v.t = "list"
        THEN IF Len(v.items) = 0 THEN <<91, 93>>
             ELSE <<91>> \o inner
                      \o JoinWith([i \in 1..Len(v.items) |->
                             json_dumps_indent(v.items[i], sort_keys, level + 1)],
                                  <<44>> \o inner)
                      \o outer \o <<93>>
        ELSE IF v.t = "dict"
        THEN IF Len(v.pairs) = 0 THEN <<123, 125>>
             ELSE With(IF sort_keys THEN sorted_items(v.pairs) ELSE v.pairs, LAMBDA items :
                      <<123>> \o inner
                          \o JoinWith([i \in 1..Len(items) |->
                                 json_string(items[i][1], TRUE) \o <<58, 32>>
                                     \o json_dumps_indent(items[i][2], sort_keys, level + 1)],
                                      <<44>> \o inner)
                          \o outer \o <<125>>)
        ELSE json_dumps(v, sort_keys, TRUE)

\* list(t) of a tuple of ints
py_int_list(t) == PyList(<<>> \o [i \in 1..Len(t) |-> PyInt(t[i])])

\* open(path, "ab").write(buf): the file keeps what it held
file_write_ab(files, name, content) ==
    IF name \in DOMAIN files THEN files[name] \o content ELSE content

\* open(path, "wb").write(buf): the file holds buf and nothing else
file_write_wb(files, name, content) == content

\* write_tile_pack(out_dir, tiling_spec, tiles): the files of out_dir
\* afterwards. files maps each name in the directory to its bytes; tiles is
\* the dict's items in insertion order, as <<idx, buf>> pairs.
write_tile_pack(files, tiling_spec, tiles) ==
    LET filename(k) == tile_index_to_name(tiles[k][1])
        manifest_tiles ==
            <<>> \o [k \in 1..Len(tiles) |->
                PyDict(<<<<KEY_TX, PyInt(tiles[k][1].tx)>>,
                         <<KEY_TY, PyInt(tiles[k][1].ty)>>,
                         <<KEY_TZ, PyInt(tiles[k][1].tz)>>,
                         <<KEY_FILENAME, PyStr(filename(k))>>,
                         <<KEY_NBYTES, PyInt(Len(tiles[k][2]))>>>>)]
        manifest_dict ==
            PyDict(<<<<KEY_VERSION, PyStr(TILE_MANIFEST_VERSION)>>,
                     <<KEY_VOLUME_DIMS, py_int_list(tiling_spec.volume_dims)>>,
                     <<KEY_TILE_SIZE, py_int_list(tiling_spec.tile_size)>>,
                     <<KEY_TILES_PER_AXIS, py_int_list(tiling_spec.tiles_per_axis)>>,
                     <<KEY_TILES, PyList(manifest_tiles)>>>>)
        written == {filename(k) : k \in 1..Len(tiles)}
        last(n) == CHOOSE k \in 1..Len(tiles) :
                      /\ filename(k) = n
                      /\ \A j \in 1..Len(tiles) : filename(j) = n => j <= k
    IN  [n \in DOMAIN files \cup written \cup {TILE_MANIFEST_FILENAME} |->
            IF n = TILE_MANIFEST_FILENAME
            THEN utf8_encode(json_dumps_indent(manifest_dict, TRUE, 0))
            ELSE IF n \in written THEN file_write_wb(files, n, tiles[last(n)][2])
            ELSE files[n]]

\* tuple(data[key]) for a list of ints
py_int_tuple(v) == <<>> \o [i \in 1..Len(v.items) |-> v.items[i].n]

\* load_tile_manifest(out_dir): the TilingSpecV07, or the error raised
load_tile_manifest(files) ==
    IF TILE_MANIFEST_FILENAME \notin DOMAIN files THEN Raise("FileNotFoundError")
    ELSE With(utf8_decode(files[TILE_MANIFEST_FILENAME]), LAMBDA text :
        IF text.st # "ok" THEN text
        ELSE With(json_loads(text.s), LAMBDA data :
            IF data.st # "ok" THEN data
            ELSE IF \E key \in {KEY_VOLUME_DIMS, KEY_TILE_SIZE, KEY_TILES_PER_AXIS} :
                       dict_get(data.v.pairs, key, PyNone) = PyNone
                 THEN Raise("KeyError")
            ELSE [st |-> "ok",
                  volume_dims |-> py_int_tuple(dict_get(data.v.pairs, KEY_VOLUME_DIMS, PyNone)),
                  tile_size |-> py_int_tuple(dict_get(data.v.pairs, KEY_TILE_SIZE, PyNone)),
                  tiles_per_axis |->
                      py_int_tuple(dict_get(data.v.pairs, KEY_TILES_PER_AXIS, PyNone))]))

\* ------------------------------------------------------------------------
\* tile_pack_v08: tiles padded to the full tile size
\* ------------------------------------------------------------------------

\* an element of isz bytes with every bit set
np_pad_ones(isz) == [i \in 1..isz |-> 255]

\* np.pad(sub, pad_width, mode="constant"): an element that is added holds
\* the constant 0, isz zero bytes
np_pad_element(isz) == Zeros(isz)

\* tile_volume_buffer_v08(buf, spec, tile_size): the dict of tile buffers, a
\* function of the TileIndexV07 keys, or the error raised. The sides here
\* fit a machine word, so (x + sx - 1) // sx is ceil_div.
tile_volume_buffer_v08(b, sp, tile_size) ==
    LET shape == <<sp.dims[3], sp.dims[2], sp.dims[1], sp.channels>>
        isz == itemsize(sp.dtype)
        full == <<tile_size[3], tile_size[2], tile_size[1], sp.channels>>
        n == <<ceil_div(sp.dims[1], tile_size[1]), ceil_div(sp.dims[2], tile_size[2]),
               ceil_div(sp.dims[3], tile_size[3])>>
        walk == LoopZYX(0, n[3], 0, n[2], 0, n[1])
        padded(idx) ==
            LET x0 == idx.tx * tile_size[1]
                y0 == idx.ty * tile_size[2]
                z0 == idx.tz * tile_size[3]
                x1 == Min(x0 + tile_size[1], sp.dims[1])
                y1 == Min(y0 + tile_size[2], sp.dims[2])
                z1 == Min(z0 + tile_size[3], sp.dims[3])
                At(p) ==
                    LET e == (p - 1) \div isz
                        t == IF sp.order = "C" THEN tobytes_coords(e, full)
                             ELSE tobytes_coords_F(e, full)
                        elem == IF z0 + t[1] < z1 /\ y0 + t[2] < y1 /\ x0 + t[3] < x1
                                THEN frombuffer_at(b, sp.dtype,
                                         view_index(shape, sp.order, z0 + t[1],
                                                    y0 + t[2], x0 + t[3], t[4]))
                                ELSE np_pad_element(isz)
                    IN  elem[((p - 1) % isz) + 1]
            IN  <<>> \o [p \in 1..(full[1] * full[2] * full[3] * full[4] * isz) |-> At(p)]
    IN  IF Len(b) # expected_nbytes(sp) THEN Raise("ValueError")
        ELSE IF sp.order \notin {"C", "F"} THEN Raise("ValueError")
        ELSE IF tile_size[1] <= 0 \/ tile_size[2] <= 0 \/ tile_size[3] <= 0
             THEN Raise("ValueError")
        ELSE [st |-> "ok",
              tiling_spec |-> [volume_dims |-> sp.dims, tile_size |-> tile_size,
                               tiles_per_axis |-> n],
              tiles |-> [idx \in {walk[k] : k \in DOMAIN walk} |-> padded(idx)]]

\* ------------------------------------------------------------------------
\* civd_v05_codec: the adaptive cube
\* ------------------------------------------------------------------------

\* a payload size is a Python int: a wide integer <<hi, lo>> as above
WideLess(a, b) == a[1] < b[1] \/ (a[1] = b[1] /\ a[2] < b[2])

\* w * s for 0 <= s <= 16
WideMul16(w, s) == <<w[1] * s + ((w[2] * s) \div Limb), (w[2] * s) % Limb>>

\* a + b for two wide integers
WideAddW(a, b) == <<a[1] + b[1] + ((a[2] + b[2]) \div Limb), (a[2] + b[2]) % Limb>>

\* w * m for a narrow m >= 0, one hexadecimal digit of m at a time
RECURSIVE WideMul(_, _)
WideMul(w, m) ==
    IF m = 0 THEN <<0, 0>>
    ELSE WideAddW(WideMul16(WideMul(w, m \div 16), 16), WideMul16(w, m % 16))

\* m^3 for 0 <= m <= 2^19
WideCube(m) == WideMul(WideMul(<<0, m>>, m), m)

\* the largest m in lo..hi with m^3 <= v, given lo^3 <= v
RECURSIVE CubeRootBetween(_, _, _)
CubeRootBetween(v, lo, hi) ==
    IF lo = hi THEN lo
    ELSE LET mid == (lo + hi + 1) \div 2
         IN  IF WideLess(v, WideCube(mid)) THEN CubeRootBetween(v, lo, mid - 1)
             ELSE CubeRootBetween(v, mid, hi)

\* floor of the cube root of v, for 0 <= v < 2^57
FloorCubeRoot(v) == CubeRootBetween(v, 0, 2^19 - 1)

\* floor(log2(n)) for a narrow n >= 1, and for a wide v >= 1
RECURSIVE Log2Floor(_)
Log2Floor(n) == IF n <= 1 THEN 0 ELSE 1 + Log2Floor(n \div 2)
WideLog2Floor(v) == IF v[1] > 0 THEN 27 + Log2Floor(v[1]) ELSE Log2Floor(v[2])

\* a cube root that is always rounded up exactly
ceil_pow_third_exact(v) ==
    IF WideIsZero(v) THEN {0}
    ELSE LET m == FloorCubeRoot(v)
         IN  IF WideCube(m) = v THEN {m} ELSE {m + 1}

\* math.ceil(v ** (1.0 / 3.0)) for a whole v, 0 <= v < 2^57: the values a
\* libm whose pow errs by less than one unit in the last place can give.
\* The exponent is the double nearest 1/3, which is 1/3 - 2^-54/3, so with
\* m = floor(cbrt(v)) and v = m^3 + k the power is
\*     m + k / (3 m^2) - m ln(v) / (3 * 2^54)    (up to smaller terms).
\* k = 0: the power lies in (m - 1, m], and ceil gives m.
\* k > 0 and the power is at most m (k * 2^54 <= v ln v): pow returns m or
\*     less and ceil gives m, one short of the cube root rounded up.
\* k > 0 and the power exceeds m by a unit in the last place or more
\*     (k * 2^54 >= v (ln v + 12)): ceil gives m + 1.
\* In between the result depends on how pow rounds: either value.
\* v / 2^54 is bounded by a / 2^10 and (a + 1) / 2^10 with a = floor(v / 2^44),
\* and ln v by 2/3 * bits and bits + 1 with bits = floor(log2 v).
ceil_pow_third(v) ==
    IF WideIsZero(v) THEN {0}
    ELSE LET m == FloorCubeRoot(v)
             cube == WideCube(m)
             ks == {k \in 0..1023 : WideAdd(cube, k) = v}
             a == v[1] \div 2^17
             bits == WideLog2Floor(v)
         IN  IF ks = {} THEN {m + 1}
             ELSE LET k == CHOOSE n \in ks : TRUE
                  IN  IF k = 0 THEN {m}
                      ELSE IF k * 3 * 2^10 <= a * 2 * bits THEN {m}
                      ELSE IF k * 2^10 >= (a + 1) * (bits + 14) THEN {m + 1}
                      ELSE {m, m + 1}

\* -w for a wide integer of small magnitude below zero; w itself otherwise
WideAbs(w) == IF w[1] < 0 THEN WideOf(0 - (w[1] * Limb + w[2])) ELSE w

\* choose_geometry_v05(payload_size, channels): the results it can give, each
\* the cube returned or the error raised. payload_size is a wide integer,
\* channels a narrow one of magnitude below 16. A quotient below zero whose
\* ceiling is below zero makes the power a complex number, which math.ceil
\* refuses with TypeError.
choose_geometry_v05(payload_size, channels) ==
    IF channels = 0 THEN {Raise("ZeroDivisionError")}
    ELSE IF WideIsZero(payload_size) THEN {[st |-> "ok", dims |-> <<0, 0, 0>>]}
    ELSE IF (payload_size[1] < 0) # (channels < 0)
    THEN IF WideIsZero(WideDivMod(WideAbs(payload_size), 0 - Min(channels, 0 - channels)).q)
         THEN {[st |-> "ok", dims |-> <<0, 0, 0>>]}
         ELSE {Raise("TypeError")}
    ELSE LET voxels_needed ==
                 math_ceil_truediv(WideAbs(payload_size), Max(channels, 0 - channels))
         IN  {[st |-> "ok", dims |-> <<d, d, d>>] : d \in ceil_pow_third(voxels_needed)}

\* ------------------------------------------------------------------------
\* State
\* ------------------------------------------------------------------------

VARIABLES
    payload,   \* codec: the caller's payload bytes
    dims,      \* codec: the caller's (x, y, z)
    channels,  \* codec: the caller's channel count
    encoded,   \* codec: what encode_bytes_to_civd_v03 returned or raised
    blob,      \* codec: the bytes handed to decode_civd_v03
    decoded,   \* codec: what decode_civd_v03 returned or raised
    roi,       \* ROI engine and tile grid: the caller's RoiV06
    roiDims,   \* ROI engine: the dims handed to clamp_roi
    clamped,   \* ROI engine: what clamp_roi returned
    reclamped, \* ROI engine: what clamp_roi returned for the clamped ROI
    slices,    \* ROI engine: what roi_to_slices returned for the clamped ROI
    grid,      \* tile grid: the TileGridSpecV07 (dims, tile)
    picked,    \* tile grid: what tile_pack_v07.query_tiles_for_roi returned
    touched,   \* tile grid: what tiler_v07.tiles_for_roi returned
    boxes,     \* tile grid: tile_bounds of every index, in tile_volume's order
    boundsAt,  \* tile grid: one tile_bounds call, its index and its outcome
    vspec,     \* region read: the VolumeSpecV06
    buf,       \* region read: the volume buffer
    chsel,     \* region read: the channels argument
    region,    \* region read: what read_region_from_bytes returned or raised
    snapMeta,  \* snapshots: the caller's meta
    snapSchema, \* snapshots: the caller's (schema_id, schema_version)
    file7,     \* snapshots: what write_snapshot_v07 returned or raised
    file8,     \* snapshots: the bytes at the path write_snapshot_v08 wrote
    wrote8,    \* snapshots: what write_snapshot_v08 returned or raised
    read7,     \* snapshots: read_snapshot_v07 of the v0.7 blob
    read8,     \* snapshots: read_snapshot_v08 of the v0.8 file
    cross7,    \* snapshots: read_snapshot_v07 of the v0.8 file
    cross8,    \* snapshots: read_snapshot_v08 of the v0.7 blob
    roiRead7,  \* snapshots: what read_roi_from_snapshot_v07 returned or raised
    roiRead8,  \* snapshots: what read_roi_from_snapshot_v08 returned or raised
    legacyData,    \* legacy codecs: the caller's data, if a legacy call is made
    legacyEncoded, \* legacy codecs: what the legacy encoder returned or raised
    legacyBlob,    \* legacy codecs: the blob as it reaches a decoder
    legacyDecoded, \* legacy codecs: the decoder called and what it returned
    axisDims,  \* tiles per axis: the volume dims, each a wide integer
    axisTile,  \* tiles per axis: the tile size
    axisGrid,  \* tiles per axis: TileGridSpecV07(dims, tile).grid_dims()
    axisPack,  \* tiles per axis: tile_pack_v07._compute_tiles_per_axis
    axisV08,   \* tiles per axis: compute_tiling_spec_v08(...).tiles_per_axis
    tileSize,  \* tiling: the tile_size handed to tile_volume_buffer
    tiled,     \* tiling: what tile_volume_buffer returned or raised
    tiled8,    \* tiling: what tile_volume_buffer_v08 returned or raised
    manifest,  \* tiler: the TileManifestV07
    volume,    \* tiler: the array handed to tile_volume
    tvTiles,   \* tiler: what tile_volume returned or raised
    tvKept,    \* tiler: the tiles handed to assemble_volume_from_tiles
    fillValue, \* tiler: the fill_value handed to assemble_volume_from_tiles
    assembled, \* tiler: what assemble_volume_from_tiles returned or raised
    tileHdr,   \* tile header: the TileHeaderV08 a writer builds
    tilePayload, \* tile header: the payload bytes of the tile
    tileFile,  \* tile header: the bytes of the tile file
    hdrParsed, \* tile header: what try_parse_tile_header_v08 returned
    autoRead,  \* tile header: what read_tile_file_payload_auto returned or raised
    tileIdx,   \* tile names: the TileIndexV07 that is named
    tileName,  \* tile names: the name handed to name_to_tile_index
    nameParsed, \* tile names: what name_to_tile_index returned or raised
    packDir,   \* tile pack: the files of the directory, name to content
    packSpec,  \* tile pack: the TilingSpecV07 of the last write_tile_pack
    packTiles, \* tile pack: the tiles of the last write_tile_pack
    packLoaded, \* tile pack: what load_tile_manifest returned or raised
    geoPayload, \* geometry: the payload_size handed to choose_geometry_v05
    geoChannels, \* geometry: the channels handed to choose_geometry_v05
    geometry   \* geometry: what choose_geometry_v05 returned or raised

codecVars == <<payload, dims, channels, encoded, blob, decoded>>
clampVars == <<roiDims, clamped, reclamped, slices>>
tileVars == <<grid, picked, touched, boxes, boundsAt>>
readVars == <<vspec, buf, chsel, region>>
snapVars ==
    <<snapMeta, snapSchema, file7, file8, wrote8, read7, read8, cross7, cross8,
      roiRead7, roiRead8>>
legacyVars == <<legacyData, legacyEncoded, legacyBlob, legacyDecoded>>
axisVars == <<axisDims, axisTile, axisGrid, axisPack, axisV08>>
tilingVars == <<tileSize, tiled>>
pad8Vars == <<tiled8>>
asmVars == <<manifest, volume, tvTiles, tvKept, fillValue, assembled>>
hdrVars == <<tileHdr, tilePayload, tileFile, hdrParsed, autoRead>>
nameVars == <<tileIdx, tileName, nameParsed>>
dirVars == <<packDir, packSpec, packTiles, packLoaded>>
geoVars == <<geoPayload, geoChannels, geometry>>
lateVars == <<pad8Vars, asmVars, hdrVars, nameVars, dirVars, geoVars>>
packVars == <<axisVars, tilingVars, lateVars>>
earlyVars ==
    <<codecVars, roi, clampVars, tileVars, readVars, snapVars, legacyVars,
      axisVars, tilingVars>>
extVars == <<snapVars, legacyVars, packVars>>
vars == <<codecVars, roi, clampVars, tileVars, readVars, extVars>>

\* the state of a component no call has touched
CodecIdle ==
    /\ payload = <<>> /\ dims = <<1, 1, 1>> /\ channels = 1
    /\ encoded = None /\ blob = <<>> /\ decoded = None

RoiIdle == roi = RoiV06(0, 0, 0, 0, 0, 0)

ClampIdle ==
    /\ roiDims = <<1, 1, 1>>
    /\ clamped = None /\ reclamped = None /\ slices = None

TileIdle ==
    /\ grid = TileGridSpecV07(<<1, 1, 1>>, <<1, 1, 1>>)
    /\ picked = None /\ touched = None /\ boxes = None /\ boundsAt = None

ReadIdle ==
    /\ vspec = VolumeSpecV06(<<1, 1, 1>>, 1, "uint8", "C", "C_CONTIG")
    /\ buf = <<0>> /\ chsel = [some |-> FALSE] /\ region = None

SnapIdle ==
    /\ snapMeta = PyNone /\ snapSchema = <<<<>>, <<>>>>
    /\ file7 = None /\ file8 = None /\ wrote8 = None
    /\ read7 = None /\ read8 = None /\ cross7 = None /\ cross8 = None
    /\ roiRead7 = None /\ roiRead8 = None

LegacyIdle ==
    /\ legacyData = [some |-> FALSE]
    /\ legacyEncoded = None /\ legacyBlob = <<>> /\ legacyDecoded = None

AxisIdle ==
    /\ axisDims = <<<<0, 1>>, <<0, 1>>, <<0, 1>>>> /\ axisTile = <<1, 1, 1>>
    /\ axisGrid = None /\ axisPack = None /\ axisV08 = None

TilingIdle == tileSize = <<1, 1, 1>> /\ tiled = None

Pad8Idle == tiled8 = None

AsmIdle ==
    /\ manifest = None /\ volume = None /\ tvTiles = None /\ tvKept = None
    /\ fillValue = 0 /\ assembled = None

HdrIdle ==
    /\ tileHdr = None /\ tilePayload = <<>> /\ tileFile = None
    /\ hdrParsed = None /\ autoRead = None

NameIdle == tileIdx = None /\ tileName = <<>> /\ nameParsed = None

DirIdle == packDir = None /\ packSpec = None /\ packTiles = None /\ packLoaded = None

GeoIdle == geoPayload = <<0, 1>> /\ geoChannels = 1 /\ geometry = None

LateIdle == Pad8Idle /\ AsmIdle /\ HdrIdle /\ NameIdle /\ DirIdle /\ GeoIdle

PackIdle == AxisIdle /\ TilingIdle /\ LateIdle

EarlyIdle ==
    /\ CodecIdle /\ RoiIdle /\ ClampIdle /\ TileIdle /\ ReadIdle
    /\ SnapIdle /\ LegacyIdle /\ AxisIdle /\ TilingIdle

ExtIdle == SnapIdle /\ LegacyIdle /\ PackIdle

\* ------------------------------------------------------------------------
\* Codec: inputs and operations
\* ------------------------------------------------------------------------

\* sides drawn for an encode call: rejected (0), accepted, and one past "H"
DimInputs ==
    {<<x, y, z>> : x \in 0..MaxDim, y \in 0..MaxDim, z \in 0..MaxDim}
        \cup {<<U16_MAX + 1, 1, 1>>}

\* channel counts drawn: rejected (0), accepted, and one past "B"
ChannelInputs == (0..MaxChannels) \cup {U8_MAX + 1}

\* payloads of n bytes: constant 0, constant 255 and two ramps
PayloadsOfLen(n) ==
    {[i \in 1..n |-> (b + k * i) % 256] : b \in {0, 255}, k \in {0, 1}}

\* lengths drawn for a geometry: up to one past the capacity, and no more
\* than the largest in-range capacity plus one
MaxPayloadLen == MaxDim * MaxDim * MaxDim * MaxChannels + 1

LenInputs(dm, ch) ==
    LET cap == IF dm[1] <= 0 \/ dm[2] <= 0 \/ dm[3] <= 0 \/ ch <= 0 THEN 0
               ELSE dims_to_volume_size(dm[1], dm[2], dm[3], ch)
    IN  0..Min(cap + 1, MaxPayloadLen)

InitCodec ==
    /\ dims \in DimInputs
    /\ channels \in ChannelInputs
    /\ \E n \in LenInputs(dims, channels) : payload \in PayloadsOfLen(n)
    /\ encoded = None
    /\ blob = <<>>
    /\ decoded = None
    /\ RoiIdle /\ ClampIdle /\ TileIdle /\ ReadIdle /\ ExtIdle

Encode ==
    /\ encoded = None
    /\ encoded' = encode_bytes_to_civd_v03(payload, dims, channels)
    /\ blob' = IF encoded'.st = "ok" THEN encoded'.bytes ELSE <<>>
    /\ UNCHANGED <<payload, dims, channels, decoded, roi, clampVars, tileVars, readVars, extVars>>

Decode ==
    /\ encoded.st = "ok"
    /\ decoded = None
    /\ decoded' = decode_civd_v03(blob)
    /\ UNCHANGED <<payload, dims, channels, encoded, blob, roi, clampVars, tileVars, readVars, extVars>>

\* flip bit `bit` of byte `off` (0-based) of the voxel region of the blob
FlipBit(b, off, bit) ==
    LET i == HEADER_SIZE + off + 1
        w == 2 ^ bit
    IN  [b EXCEPT ![i] = IF (b[i] \div w) % 2 = 1 THEN b[i] - w ELSE b[i] + w]

\* a transmission or storage fault between encode and decode
FlipVoxelBit ==
    /\ encoded.st = "ok"
    /\ blob = encoded.bytes
    /\ decoded = None
    /\ \E off \in 0..(Len(blob) - HEADER_SIZE - FOOTER_SIZE - 1), bit \in 0..7 :
          blob' = FlipBit(blob, off, bit)
    /\ UNCHANGED <<payload, dims, channels, encoded, decoded, roi, clampVars, tileVars, readVars, extVars>>

NextCodec == Encode \/ Decode
SpecCodec == InitCodec /\ [][NextCodec]_vars

NextTamper == Encode \/ FlipVoxelBit \/ Decode
SpecTamper == InitCodec /\ [][NextTamper]_vars

\* ------------------------------------------------------------------------
\* Codec claims
\* ------------------------------------------------------------------------

Capacity == dims_to_volume_size(dims[1], dims[2], dims[3], channels)

\* the inputs C1 speaks of: positive sides, positive channels, payload fits
CodecInputsValid ==
    /\ dims[1] > 0 /\ dims[2] > 0 /\ dims[3] > 0
    /\ channels > 0
    /\ Len(payload) <= Capacity

\* the inputs the 24-byte header can carry: sides in "H", channels in "B"
CodecInputsFit ==
    /\ dims[1] <= U16_MAX /\ dims[2] <= U16_MAX /\ dims[3] <= U16_MAX
    /\ channels <= U8_MAX

RoundTripHolds ==
    /\ encoded # None => encoded.st = "ok"
    /\ decoded # None =>
          /\ decoded.st = "ok"
          /\ decoded.payload = payload
          /\ decoded.dims = dims
          /\ decoded.channels = channels

\* C1 (as claimed): for every dims with all sides > 0, every channels > 0
\* and every payload of at most x*y*z*channels bytes, encode succeeds and
\* decode of its blob returns exactly the payload, with the same dims and
\* channels in the info.
C1_RoundTripAnyGeometry == CodecInputsValid => RoundTripHolds

\* C1 (amended): the same, for sides of at most 65535 and at most 255
\* channels, the values the header's u16 and u8 fields can hold.
C1_RoundTrip == (CodecInputsValid /\ CodecInputsFit) => RoundTripHolds

\* C1 witness: a payload shorter than the capacity came back from decode,
\* so the zero padding was cut off again
C1_Witness ==
    /\ decoded # None /\ decoded.st = "ok"
    /\ Len(payload) > 0 /\ Len(payload) < decoded.capacity
    /\ decoded.payload = payload

\* C2: once any bit of the voxel region of an encoded blob has been changed
\* (header and footer intact), decode fails with an error; and decode never
\* returns a payload when the CRC32 recomputed over the voxel region differs
\* from the footer.
C2_TamperFailsClosed ==
    decoded # None =>
        /\ blob # encoded.bytes => decoded.st = "err"
        /\ decoded.st = "ok" =>
              Crc32(Slice(blob, HEADER_SIZE, Len(blob) - FOOTER_SIZE))
                  = Slice(blob, Len(blob) - FOOTER_SIZE, Len(blob))

\* ------------------------------------------------------------------------
\* ROI engine: clamp inputs and operations
\* ------------------------------------------------------------------------

\* volume sides drawn for clamp_roi: the largest side and the one below it
SideInputs == (IF MaxSide > 1 THEN MaxSide - 1 ELSE 1)..MaxSide
ClampDimInputs == {<<x, y, z>> : x \in SideInputs, y \in SideInputs, z \in SideInputs}

\* origins from one voxel before the volume to one past its last voxel,
\* extents from negative to one more than the largest side
OriginInputs == -1..MaxSide
ExtentInputs == -1..(MaxSide + 1)

\* the three clamp cases of tests/test_roi_v06.py, dims (10, 8, 6)
ScenarioDims == <<10, 8, 6>>
ScenarioRois ==
    {RoiV06(2, 1, 0, 3, 2, 2), RoiV06(-5, -3, -1, 50, 50, 50),
     RoiV06(8, 7, 5, 10, 10, 10)}

InitClamp ==
    /\ \/ /\ roiDims \in ClampDimInputs
          /\ \E x \in OriginInputs, y \in OriginInputs, z \in OriginInputs,
                w \in ExtentInputs, h \in ExtentInputs, d \in ExtentInputs :
                roi = RoiV06(x, y, z, w, h, d)
       \/ /\ roiDims = ScenarioDims
          /\ roi \in ScenarioRois
    /\ clamped = None /\ reclamped = None /\ slices = None
    /\ CodecIdle /\ TileIdle /\ ReadIdle /\ ExtIdle

ClampRoi ==
    /\ clamped = None
    /\ clamped' = [st |-> "ok", roi |-> clamp_roi(roi, roiDims)]
    /\ UNCHANGED <<roi, roiDims, reclamped, slices, codecVars, tileVars, readVars, extVars>>

\* the clamped ROI is clamped once more against the same dims
ClampAgain ==
    /\ clamped # None /\ reclamped = None
    /\ reclamped' = [st |-> "ok", roi |-> clamp_roi(clamped.roi, roiDims)]
    /\ UNCHANGED <<roi, roiDims, clamped, slices, codecVars, tileVars, readVars, extVars>>

\* the clamped ROI is turned into index ranges
RoiToSlices ==
    /\ clamped # None /\ slices = None
    /\ slices' = [st |-> "ok", zyx |-> roi_to_slices(clamped.roi)]
    /\ UNCHANGED <<roi, roiDims, clamped, reclamped, codecVars, tileVars, readVars, extVars>>

NextClamp == ClampRoi \/ ClampAgain \/ RoiToSlices
SpecClamp == InitClamp /\ [][NextClamp]_vars

\* ------------------------------------------------------------------------
\* Clamp claims
\* ------------------------------------------------------------------------

\* C6: clamping is idempotent: for every ROI (any integer origin and
\* extent, negative and zero included) and every dims, clamping the clamped
\* ROI against the same dims gives the clamped ROI again.
C6_ClampIdempotent == reclamped # None => reclamped.roi = clamped.roi

\* C6 witness: an ROI that the first clamp changed has been clamped twice
C6_Witness == reclamped # None /\ clamped.roi # roi /\ clamped.roi.w > 0

AxisInside(o, e, dim) == 0 <= o /\ e >= 0 /\ o + e <= dim

\* C7: for every input ROI and dims with positive sides clamp_roi returns
\* an ROI with 0 <= origin, extent >= 0 and origin + extent <= dim on every
\* axis.
C7_ClampTotal ==
    clamped # None =>
        /\ clamped.st = "ok"
        /\ AxisInside(clamped.roi.x, clamped.roi.w, roiDims[1])
        /\ AxisInside(clamped.roi.y, clamped.roi.h, roiDims[2])
        /\ AxisInside(clamped.roi.z, clamped.roi.d, roiDims[3])

\* C7 witness: an ROI overshooting the volume on the high side of one axis
\* and starting before it on another has been clamped
C7_Witness ==
    /\ clamped # None
    /\ roi.x >= 0 /\ roi.w > 0 /\ roi.x + roi.w > roiDims[1]
    /\ roi.y < 0 /\ roi.h > 0

\* on one axis: the box intersection of [o, o+e) with [0, dim)
AxisIntersects(o, e, dim) == e > 0 /\ o < dim /\ o + e > 0
AxisIsIntersection(o, e, dim, co, ce) ==
    AxisIntersects(o, e, dim) =>
        /\ co = (IF o < 0 THEN 0 ELSE o)
        /\ ce = (IF o + e > dim THEN dim ELSE o + e) - (IF o < 0 THEN 0 ELSE o)

RoiInside(r, dm) ==
    /\ r.w > 0 /\ r.h > 0 /\ r.d > 0
    /\ AxisInside(r.x, r.w, dm[1])
    /\ AxisInside(r.y, r.h, dm[2])
    /\ AxisInside(r.z, r.d, dm[3])

\* C8: on every axis where the ROI has positive extent and overlaps
\* [0, dim), clamp_roi returns origin max(0, o) and extent
\* min(dim, o+e) - max(0, o); so an ROI inside the volume comes back
\* unchanged, an ROI overshooting on both sides of every axis becomes the
\* full volume, origin (8,7,5) extent (10,10,10) in dims (10,8,6) becomes
\* origin (8,7,5) extent (2,1,1); and roi_to_slices of the result gives the
\* (z, y, x) ranges [origin, origin + extent).
C8_ClampIsIntersection ==
    /\ clamped # None =>
          /\ AxisIsIntersection(roi.x, roi.w, roiDims[1], clamped.roi.x, clamped.roi.w)
          /\ AxisIsIntersection(roi.y, roi.h, roiDims[2], clamped.roi.y, clamped.roi.h)
          /\ AxisIsIntersection(roi.z, roi.d, roiDims[3], clamped.roi.z, clamped.roi.d)
          /\ RoiInside(roi, roiDims) => clamped.roi = roi
          /\ (/\ roi.x < 0 /\ roi.x + roi.w > roiDims[1]
              /\ roi.y < 0 /\ roi.y + roi.h > roiDims[2]
              /\ roi.z < 0 /\ roi.z + roi.d > roiDims[3])
                => clamped.roi = RoiV06(0, 0, 0, roiDims[1], roiDims[2], roiDims[3])
          /\ (roi = RoiV06(8, 7, 5, 10, 10, 10) /\ roiDims = <<10, 8, 6>>)
                => clamped.roi = RoiV06(8, 7, 5, 2, 1, 1)
    /\ slices # None =>
          slices.zyx = <<<<clamped.roi.z, clamped.roi.z + clamped.roi.d>>,
                         <<clamped.roi.y, clamped.roi.y + clamped.roi.h>>,
                         <<clamped.roi.x, clamped.roi.x + clamped.roi.w>>>>

\* C8 witness: the (8,7,5)/(10,10,10) scenario has been clamped and sliced
C8_Witness ==
    /\ slices # None
    /\ roi = RoiV06(8, 7, 5, 10, 10, 10) /\ roiDims = <<10, 8, 6>>
    /\ slices.zyx = <<<<5, 6>>, <<7, 8>>, <<8, 10>>>>

\* ------------------------------------------------------------------------
\* Tile grid: ROI -> tiles, inputs and operations
\* ------------------------------------------------------------------------

\* volume sides drawn for a grid: a single voxel, a whole number of the
\* largest tile, and one voxel more (a partial edge tile)
GridSideInputs == {1, MaxTile, MaxTile + 1}
TileSideInputs == 1..MaxTile

GridInputs ==
    {TileGridSpecV07(<<x, y, z>>, <<tx, ty, tz>>) :
        x \in GridSideInputs, y \in GridSideInputs, z \in GridSideInputs,
        tx \in TileSideInputs, ty \in TileSideInputs, tz \in TileSideInputs}

\* <<origin, extent>> on the axis that is varied: origins from one voxel
\* before the volume to its far edge, extents from none to a full side
FineIntervals == {<<o, e>> : o \in -1..(MaxTile + 1), e \in 0..(MaxTile + 1)}

\* <<origin, extent>> on the other two axes: the whole side, or its last voxel
CoarseIntervals(dim) == {<<0, dim>>, <<dim - 1, 1>>}

\* ROIs drawn for a volume: each axis in turn is varied finely
TileRoiInputs(dm) ==
    UNION {
        {RoiV06(ix[1], iy[1], iz[1], ix[2], iy[2], iz[2]) :
            ix \in (IF fine = 1 THEN FineIntervals ELSE CoarseIntervals(dm[1])),
            iy \in (IF fine = 2 THEN FineIntervals ELSE CoarseIntervals(dm[2])),
            iz \in (IF fine = 3 THEN FineIntervals ELSE CoarseIntervals(dm[3]))} :
        fine \in 1..3}

\* tests/test_tile_pack_v07.py: dims 16^3, tile 8^3, the full-volume ROI
ScenarioGrid == TileGridSpecV07(<<16, 16, 16>>, <<8, 8, 8>>)
ScenarioFullRoi == RoiV06(0, 0, 0, 16, 16, 16)

InitTiles ==
    /\ \/ /\ grid \in GridInputs
          /\ roi \in TileRoiInputs(grid.dims)
       \/ /\ grid = ScenarioGrid
          /\ roi = ScenarioFullRoi
    /\ picked = None /\ touched = None /\ boxes = None /\ boundsAt = None
    /\ CodecIdle /\ ClampIdle /\ ReadIdle /\ ExtIdle

\* tile_pack_v07: the tiling spec of the grid is queried with the ROI
QueryTiles ==
    /\ picked = None
    /\ picked' = [st |-> "ok",
                  tiles |-> query_tiles_for_roi(TilingSpecV07(grid.dims, grid.tile), roi)]
    /\ UNCHANGED <<roi, grid, touched, boxes, boundsAt, codecVars, clampVars, readVars, extVars>>

\* tiler_v07: a manifest with the same grid is asked for the same ROI
TilesForRoi ==
    /\ touched = None
    /\ touched' = [st |-> "ok", tiles |-> tiles_for_roi(grid, roi)]
    /\ UNCHANGED <<roi, grid, picked, boxes, boundsAt, codecVars, clampVars, readVars, extVars>>

NextTiles == QueryTiles \/ TilesForRoi
SpecTiles == InitTiles /\ [][NextTiles]_vars

\* ------------------------------------------------------------------------
\* ROI -> tiles claims
\* ------------------------------------------------------------------------

SeqSet(q) == {q[i] : i \in 1..Len(q)}

GridIndices(g) ==
    LET td(i) == IF g.dims[i] % g.tile[i] = 0 THEN g.dims[i] \div g.tile[i]
                 ELSE (g.dims[i] \div g.tile[i]) + 1
    IN  {TileIndexV07(tx, ty, tz) :
            tx \in 0..(td(1) - 1), ty \in 0..(td(2) - 1), tz \in 0..(td(3) - 1)}

\* voxel-by-voxel: the tiles holding a voxel of the volume that is in the ROI
\* (the voxel v lies in the tile with coordinate v \div tile on each axis)
TilesHoldingRoiVoxel(g, r) ==
    {idx \in GridIndices(g) :
        /\ \E vx \in 0..(g.dims[1] - 1) :
              r.x <= vx /\ vx < r.x + r.w /\ vx \div g.tile[1] = idx.tx
        /\ \E vy \in 0..(g.dims[2] - 1) :
              r.y <= vy /\ vy < r.y + r.h /\ vy \div g.tile[2] = idx.ty
        /\ \E vz \in 0..(g.dims[3] - 1) :
              r.z <= vz /\ vz < r.z + r.d /\ vz \div g.tile[3] = idx.tz}

ExactSelection(result) ==
    /\ SeqSet(result.tiles) = TilesHoldingRoiVoxel(grid, roi)
    /\ Len(result.tiles) = Cardinality(SeqSet(result.tiles))
    /\ SeqSet(result.tiles) \subseteq GridIndices(grid)
    /\ roi = RoiV06(0, 0, 0, grid.dims[1], grid.dims[2], grid.dims[3])
          => SeqSet(result.tiles) = GridIndices(grid)
    /\ (grid = ScenarioGrid /\ roi = ScenarioFullRoi) => Len(result.tiles) = 8

\* C3: for every grid and every ROI with positive extent on all axes,
\* query_tiles_for_roi and tiler_v07.tiles_for_roi each return exactly the
\* tile indices whose tile box holds a voxel of the ROI that lies inside the
\* volume, each once and all inside the grid; a full-volume ROI returns every
\* tile (8 for dims 16^3 with tile 8^3).
C3_TileSelectionExact ==
    (roi.w > 0 /\ roi.h > 0 /\ roi.d > 0) =>
        /\ picked # None => ExactSelection(picked)
        /\ touched # None => ExactSelection(touched)

\* C3 witness: both functions have answered for an ROI that starts before
\* the volume on x and selects some but not all tiles
C3_Witness ==
    /\ picked # None /\ touched # None
    /\ roi.w > 0 /\ roi.h > 0 /\ roi.d > 0 /\ roi.x < 0
    /\ Len(touched.tiles) > 1
    /\ Len(touched.tiles) < Cardinality(GridIndices(grid))

\* C4: for every grid and every ROI whose extent is zero on at least one
\* axis, wherever its origin lies, query_tiles_for_roi and
\* tiler_v07.tiles_for_roi both return the empty list.
C4_DegenerateRoiSelectsNothing ==
    (roi.w = 0 \/ roi.h = 0 \/ roi.d = 0) =>
        /\ picked # None => picked.tiles = <<>>
        /\ touched # None => touched.tiles = <<>>

\* ------------------------------------------------------------------------
\* Tile grid: tile bounds, operations
\* ------------------------------------------------------------------------

InitGrid ==
    /\ grid \in GridInputs
    /\ picked = None /\ touched = None /\ boxes = None /\ boundsAt = None
    /\ RoiIdle /\ CodecIdle /\ ClampIdle /\ ReadIdle /\ ExtIdle

\* tile_bounds of every index of the grid, in the order tile_volume walks it
TileBoundsAll ==
    /\ boxes = None
    /\ LET gd == grid_dims(grid)
           walk == LoopZYX(0, gd[3], 0, gd[2], 0, gd[1])
       IN  boxes' = [st |-> "ok",
                     list |-> [k \in 1..Len(walk) |->
                                  [idx |-> walk[k], box |-> tile_bounds(grid, walk[k])]]]
    /\ UNCHANGED <<roi, grid, picked, touched, boundsAt, codecVars, clampVars, readVars, extVars>>

\* one tile_bounds call, the index possibly outside the grid
TileBoundsAt ==
    /\ boundsAt = None
    /\ LET gd == grid_dims(grid)
       IN  \E tx \in -1..gd[1], ty \in -1..gd[2], tz \in -1..gd[3] :
              boundsAt' = [st |-> "ok", idx |-> TileIndexV07(tx, ty, tz),
                           box |-> tile_bounds(grid, TileIndexV07(tx, ty, tz))]
    /\ UNCHANGED <<roi, grid, picked, touched, boxes, codecVars, clampVars, readVars, extVars>>

NextGrid == TileBoundsAll \/ TileBoundsAt
SpecGrid == InitGrid /\ [][NextGrid]_vars

\* ------------------------------------------------------------------------
\* Tile bounds claims
\* ------------------------------------------------------------------------

VoxelInBox(vx, vy, vz, b) ==
    /\ b.x0 <= vx /\ vx < b.x1
    /\ b.y0 <= vy /\ vy < b.y1
    /\ b.z0 <= vz /\ vz < b.z1

BoxesDisjoint(a, b) ==
    \/ a.x1 <= b.x0 \/ b.x1 <= a.x0
    \/ a.y1 <= b.y0 \/ b.y1 <= a.y0
    \/ a.z1 <= b.z0 \/ b.z1 <= a.z0

\* C5: for every volume dims and positive tile size the boxes tile_bounds
\* returns over all indices 0 <= t < grid_dims (x0 = tx*tile_x,
\* x1 = min(x0 + tile_x, dim_x), likewise y and z) are non-empty, lie inside
\* the volume, are pairwise disjoint, and together hold every voxel of the
\* volume exactly once.
C5_TilePartition ==
    boxes # None =>
        LET n == Len(boxes.list)
            B(k) == boxes.list[k].box
            I(k) == boxes.list[k].idx
        IN  /\ {I(k) : k \in 1..n} = GridIndices(grid)
            /\ \A k \in 1..n :
                  /\ B(k).st = "ok"
                  /\ B(k).x0 = I(k).tx * grid.tile[1]
                  /\ B(k).y0 = I(k).ty * grid.tile[2]
                  /\ B(k).z0 = I(k).tz * grid.tile[3]
                  /\ B(k).x1 = (IF B(k).x0 + grid.tile[1] < grid.dims[1]
                                THEN B(k).x0 + grid.tile[1] ELSE grid.dims[1])
                  /\ B(k).y1 = (IF B(k).y0 + grid.tile[2] < grid.dims[2]
                                THEN B(k).y0 + grid.tile[2] ELSE grid.dims[2])
                  /\ B(k).z1 = (IF B(k).z0 + grid.tile[3] < grid.dims[3]
                                THEN B(k).z0 + grid.tile[3] ELSE grid.dims[3])
                  /\ B(k).x0 < B(k).x1 /\ B(k).y0 < B(k).y1 /\ B(k).z0 < B(k).z1
                  /\ 0 <= B(k).x0 /\ B(k).x1 <= grid.dims[1]
                  /\ 0 <= B(k).y0 /\ B(k).y1 <= grid.dims[2]
                  /\ 0 <= B(k).z0 /\ B(k).z1 <= grid.dims[3]
            /\ \A j \in 1..n, k \in 1..n : j # k => BoxesDisjoint(B(j), B(k))
            /\ \A vx \in 0..(grid.dims[1] - 1), vy \in 0..(grid.dims[2] - 1),
                  vz \in 0..(grid.dims[3] - 1) :
                  Cardinality({k \in 1..n : VoxelInBox(vx, vy, vz, B(k))}) = 1

\* C5 witness: a grid with a partial edge tile on x and more than one tile
\* on every axis has been walked
C5_Witness ==
    /\ boxes # None
    /\ grid.dims[1] % grid.tile[1] # 0 /\ grid.dims[1] > grid.tile[1]
    /\ grid.dims[2] > grid.tile[2] /\ grid.dims[3] > grid.tile[3]
    /\ Len(boxes.list) >= 8

\* ------------------------------------------------------------------------
\* Region read: inputs and operation
\* ------------------------------------------------------------------------

ReadDimInputs == {<<x, y, z>> : x \in 1..MaxVol, y \in 1..MaxVol, z \in 1..MaxVol}

DtypeInputs == {"uint8", "uint16"}

\* <<order, signature>> that _volume_view_from_bytes accepts
LayoutInputs == {<<"C", "C_CONTIG">>, <<"C", "F_CONTIG">>, <<"F", "F_CONTIG">>}

\* <<order, signature, bytes added to the buffer>>: one thing wrong at a time
DefectInputs ==
    {<<"C", "MORTON", 0>>, <<"K", "C_CONTIG", 0>>,
     <<"C", "C_CONTIG", -1>>, <<"C", "C_CONTIG", 1>>}

\* a buffer of n bytes, byte i holding i mod 256
RampBuffer(n) == [i \in 1..n |-> (i - 1) % 256]

\* <<origin, extent>> inside [0, dim) with at least one voxel
InsideIntervals(dim) ==
    {iv \in (0..(dim - 1)) \X (1..dim) : iv[1] + iv[2] <= dim}

\* <<origin, extent>> from one voxel before the side to its far edge, extents
\* from none to one more than the side
AnyIntervals(dim) == (-1..dim) \X (0..(dim + 1))

\* ROIs drawn for a volume: every box inside it, and every box that spans
\* two axes whole and is anything on the third
ReadRoiInputs(dm) ==
    {RoiV06(ix[1], iy[1], iz[1], ix[2], iy[2], iz[2]) :
        ix \in InsideIntervals(dm[1]), iy \in InsideIntervals(dm[2]),
        iz \in InsideIntervals(dm[3])}
    \cup {RoiV06(ix[1], 0, 0, ix[2], dm[2], dm[3]) : ix \in AnyIntervals(dm[1])}
    \cup {RoiV06(0, iy[1], 0, dm[1], iy[2], dm[3]) : iy \in AnyIntervals(dm[2])}
    \cup {RoiV06(0, 0, iz[1], dm[1], dm[2], iz[2]) : iz \in AnyIntervals(dm[3])}

NoChannels == [some |-> FALSE]
Channels(list) == [some |-> TRUE, list |-> list]

\* channels arguments drawn for a spec of nch channels: None, one channel,
\* a reordered pair, and lists with an index below or past the range
ChannelSelInputs(nch) ==
    {NoChannels, Channels(<<0>>), Channels(<<nch - 1>>), Channels(<<nch - 1, 0>>),
     Channels(<<-1>>), Channels(<<nch>>), Channels(<<0, nch>>)}

InitRead ==
    /\ \E dm \in ReadDimInputs, ch \in 1..MaxChannels, dt \in DtypeInputs :
          \/ /\ \E lay \in LayoutInputs :
                   vspec = VolumeSpecV06(dm, ch, dt, lay[1], lay[2])
             /\ buf = RampBuffer(expected_nbytes(vspec))
             /\ roi \in ReadRoiInputs(dm)
             /\ chsel \in ChannelSelInputs(ch)
          \/ /\ \E bad \in DefectInputs :
                   /\ vspec = VolumeSpecV06(dm, ch, dt, bad[1], bad[2])
                   /\ buf = RampBuffer(expected_nbytes(vspec) + bad[3])
             /\ roi = RoiV06(0, 0, 0, dm[1], dm[2], dm[3])
             /\ chsel \in {NoChannels, Channels(<<0>>)}
    /\ region = None
    /\ CodecIdle /\ ClampIdle /\ TileIdle /\ ExtIdle

ReadRegion ==
    /\ region = None
    /\ region' = read_region_from_bytes(buf, vspec, roi, chsel)
    /\ UNCHANGED <<vspec, buf, chsel, roi, codecVars, clampVars, tileVars, extVars>>

NextRead == ReadRegion
SpecRead == InitRead /\ [][NextRead]_vars

\* ------------------------------------------------------------------------
\* Region read claims
\* ------------------------------------------------------------------------

\* the channel of the volume that position n of the result's last axis shows
SelectedChannel(n) == IF chsel.some THEN chsel.list[n + 1] ELSE n
SelectedCount == IF chsel.some THEN Len(chsel.list) ELSE vspec.channels

\* C9: for a C-order spec and an ROI that read_region_from_bytes accepts, the
\* result has shape (d, h, w, C_sel) and its element [k][j][i][n] is the
\* buffer element at linear element index
\* (((z+k)*dim_y + (y+j))*dim_x + (x+i))*channels + c, with c = n when no
\* channel subset is given and c = channels[n] otherwise.
C9_RegionAddressing ==
    (region # None /\ region.st = "ok" /\ vspec.order = "C") =>
        /\ region.shape = <<roi.d, roi.h, roi.w, SelectedCount>>
        /\ DOMAIN region.data = Indices4(region.shape)
        /\ \A t \in Indices4(region.shape) :
              region.data[t] =
                  frombuffer_at(buf, vspec.dtype,
                      (((roi.z + t[1]) * vspec.dims[2] + (roi.y + t[2])) * vspec.dims[1]
                          + (roi.x + t[3])) * vspec.channels + SelectedChannel(t[4]))

\* C9 witness: a reordered channel pair of a box that is not at the origin
\* of a volume with unequal sides has been read from a C-order buffer
C9_Witness ==
    /\ region # None /\ region.st = "ok" /\ vspec.order = "C"
    /\ chsel.some /\ Len(chsel.list) = 2 /\ chsel.list[1] # chsel.list[2]
    /\ roi.x > 0 /\ vspec.dims[1] # vspec.dims[3] /\ vspec.dims[2] > 1

BufferFits == Len(buf) = expected_nbytes(vspec)
RoiStrictlyInside ==
    /\ 0 <= roi.x /\ roi.x < roi.x + roi.w /\ roi.x + roi.w <= vspec.dims[1]
    /\ 0 <= roi.y /\ roi.y < roi.y + roi.h /\ roi.y + roi.h <= vspec.dims[2]
    /\ 0 <= roi.z /\ roi.z < roi.z + roi.d /\ roi.z + roi.d <= vspec.dims[3]
ChannelsValid ==
    chsel.some => \A m \in 1..Len(chsel.list) :
                      0 <= chsel.list[m] /\ chsel.list[m] < vspec.channels
LayoutSupported ==
    vspec.signature \in {"C_CONTIG", "F_CONTIG"} /\ vspec.order \in {"C", "F"}

ReadOutcome(accepted) ==
    IF accepted THEN region.st = "ok" ELSE region.st = "err"

\* C10 (as claimed): read_region_from_bytes returns a tensor if and only if
\* the buffer length equals spec.expected_nbytes(), every axis satisfies
\* 0 <= origin < origin+extent <= dim and every requested channel index is
\* in 0..channels-1; in every other case it raises.
C10_ReadIffValid ==
    region # None => ReadOutcome(BufferFits /\ RoiStrictlyInside /\ ChannelsValid)

\* C10 (amended): the same for a spec whose signature is C_CONTIG or F_CONTIG
\* and whose order is C or F; for any other signature or order the call
\* raises whatever the buffer, ROI and channels are.
C10_ReadIffValidLayout ==
    region # None =>
        ReadOutcome(LayoutSupported /\ BufferFits /\ RoiStrictlyInside /\ ChannelsValid)

\* C10 witness: a call with a fitting buffer and a box inside the volume was
\* refused for its channel list
C10_Witness ==
    /\ region # None /\ region.st = "err"
    /\ LayoutSupported /\ BufferFits /\ RoiStrictlyInside /\ ~ChannelsValid

\* ------------------------------------------------------------------------
\* Snapshots: inputs and operations
\* ------------------------------------------------------------------------

SnapDtypeInputs == {"uint8", "uint16", "float32"}

\* <<order, signature>> a snapshot spec may carry
SnapLayoutInputs == {"C", "F"} \X {"C_CONTIG", "F_CONTIG"}

\* meta arguments drawn: None, {}, {"b": "é\"", "a": 1} (keys out of
\* order, a non-ASCII character and a quote), and a nested
\* {"k": [1, None], "m": {"n": "x"}}
MetaInputs ==
    {PyNone,
     PyDict(<<>>),
     PyDict(<<<<<<98>>, PyStr(<<233, 34>>)>>, <<<<97>>, PyInt(1)>>>>),
     PyDict(<<<<<<107>>, PyList(<<PyInt(1), PyNone>>)>>,
              <<<<109>>, PyDict(<<<<<<110>>, PyStr(<<120>>)>>>>)>>>>)}

\* write_snapshot_v08's default schema_id and schema_version
DefaultSchema == <<Text("CIVD_SNAPSHOT"), Text("0.8")>>

\* a schema_id of n characters
LongText(n) == <<>> \o [i \in 1..n |-> 120]

\* the v0.8 header of a snapshot with this schema_id, schema_version "0.8" and
\* meta {} is 57 bytes plus the schema_id
SchemaIdRoom == U16_MAX - (SNAP_PREFIX_SIZE + SNAP_CORE_SIZE + 4 + 4 + 3 + 4 + 2)

\* <<schema_id, schema_version>> drawn: the defaults, two empty strings, and
\* the longest schema_id the header_len field has room for and one longer
SchemaInputs == {DefaultSchema, <<<<>>, <<>>>>}
LongSchemaInputs ==
    {<<LongText(SchemaIdRoom), Text("0.8")>>, <<LongText(SchemaIdRoom + 1), Text("0.8")>>}

\* the specs drawn for a snapshot, each with a ramp buffer of its size
SnapSpecInputs(dtypes, layouts) ==
    {VolumeSpecV06(dm, ch, dt, lay[1], lay[2]) :
        dm \in ReadDimInputs, ch \in 1..MaxChannels, dt \in dtypes, lay \in layouts}

NothingWritten ==
    /\ file7 = None /\ file8 = None /\ wrote8 = None
    /\ read7 = None /\ read8 = None /\ cross7 = None /\ cross8 = None
    /\ roiRead7 = None /\ roiRead8 = None

InitSnap7 ==
    /\ vspec \in SnapSpecInputs(SnapDtypeInputs, SnapLayoutInputs)
    /\ buf = RampBuffer(expected_nbytes(vspec))
    /\ snapMeta \in MetaInputs
    /\ snapSchema = <<<<>>, <<>>>>
    /\ chsel = NoChannels /\ region = None
    /\ NothingWritten
    /\ RoiIdle /\ CodecIdle /\ ClampIdle /\ TileIdle /\ LegacyIdle /\ PackIdle

InitSnap8 ==
    /\ \/ /\ vspec \in SnapSpecInputs(SnapDtypeInputs, SnapLayoutInputs)
          /\ snapMeta \in MetaInputs
          /\ snapSchema \in SchemaInputs
       \/ /\ vspec = VolumeSpecV06(<<1, 1, 1>>, 1, "uint8", "C", "C_CONTIG")
          /\ snapMeta = PyDict(<<>>)
          /\ snapSchema \in LongSchemaInputs
    /\ buf = RampBuffer(expected_nbytes(vspec))
    /\ chsel = NoChannels /\ region = None
    /\ NothingWritten
    /\ RoiIdle /\ CodecIdle /\ ClampIdle /\ TileIdle /\ LegacyIdle /\ PackIdle

InitSnapRoi ==
    /\ vspec \in SnapSpecInputs({"uint8"}, {<<"C", "C_CONTIG">>})
    /\ buf = RampBuffer(expected_nbytes(vspec))
    /\ roi \in ReadRoiInputs(vspec.dims)
    /\ snapMeta = PyNone
    /\ snapSchema = DefaultSchema
    /\ chsel = NoChannels /\ region = None
    /\ NothingWritten
    /\ CodecIdle /\ ClampIdle /\ TileIdle /\ LegacyIdle /\ PackIdle

InitSnapCross ==
    /\ vspec \in SnapSpecInputs({"uint8", "uint16"}, {<<"C", "C_CONTIG">>})
    /\ buf = RampBuffer(expected_nbytes(vspec))
    /\ snapMeta \in {PyNone, PyDict(<<<<<<97>>, PyInt(1)>>>>)}
    /\ snapSchema = DefaultSchema
    /\ chsel = NoChannels /\ region = None
    /\ NothingWritten
    /\ RoiIdle /\ CodecIdle /\ ClampIdle /\ TileIdle /\ LegacyIdle /\ PackIdle

\* what no snapshot call changes
snapInputs ==
    <<snapMeta, snapSchema, roi, codecVars, clampVars, tileVars, readVars, legacyVars,
      packVars>>

WriteSnapshotV07 ==
    /\ file7 = None
    /\ file7' = write_snapshot_v07(buf, vspec, snapMeta)
    /\ UNCHANGED <<file8, wrote8, read7, read8, cross7, cross8, roiRead7, roiRead8,
                   snapInputs>>

\* write_snapshot_v08 to a path that held no file before
WriteSnapshotV08 ==
    /\ wrote8 = None
    /\ LET w == write_snapshot_v08(buf, vspec, snapMeta, snapSchema[1], snapSchema[2])
       IN  /\ wrote8' = IF w.st = "ok" THEN [st |-> "ok", header |-> w.header] ELSE w
           /\ file8' = IF w.st = "ok" THEN w.file ELSE None
    /\ UNCHANGED <<file7, read7, read8, cross7, cross8, roiRead7, roiRead8, snapInputs>>

ReadSnapshotV07 ==
    /\ file7 # None /\ file7.st = "ok"
    /\ read7 = None
    /\ read7' = read_snapshot_v07(file7.blob)
    /\ UNCHANGED <<file7, file8, wrote8, read8, cross7, cross8, roiRead7, roiRead8,
                   snapInputs>>

\* read_snapshot_v08 of the path write_snapshot_v08 was given
ReadSnapshotV08 ==
    /\ wrote8 # None
    /\ read8 = None
    /\ read8' = IF file8 = None THEN Raise("FileNotFoundError")
                ELSE read_snapshot_v08(file8)
    /\ UNCHANGED <<file7, file8, wrote8, read7, cross7, cross8, roiRead7, roiRead8,
                   snapInputs>>

\* the v0.8 file handed to the v0.7 reader
CrossReadV07 ==
    /\ file8 # None
    /\ cross7 = None
    /\ cross7' = read_snapshot_v07(file8)
    /\ UNCHANGED <<file7, file8, wrote8, read7, read8, cross8, roiRead7, roiRead8,
                   snapInputs>>

\* the v0.7 blob, stored in a file, handed to the v0.8 reader
CrossReadV08 ==
    /\ file7 # None /\ file7.st = "ok"
    /\ cross8 = None
    /\ cross8' = read_snapshot_v08(file7.blob)
    /\ UNCHANGED <<file7, file8, wrote8, read7, read8, cross7, roiRead7, roiRead8,
                   snapInputs>>

\* the magic and version bytes of a v0.8 file
PrefixIntact(b) == Slice(b, 0, 10) = MAGIC_SNAP_V08 \o PackU16(SNAP_VERSION_V08)

\* a file that is not a v0.8 snapshot: one byte of the magic or of the version
\* field of an intact file is replaced
CorruptPrefix ==
    /\ file8 # None
    /\ PrefixIntact(file8)
    /\ read8 = None
    /\ \E pos \in 1..10, v \in {0, 7, 255} :
          /\ file8[pos] # v
          /\ file8' = [file8 EXCEPT ![pos] = v]
    /\ UNCHANGED <<file7, wrote8, read7, read8, cross7, cross8, roiRead7, roiRead8,
                   snapInputs>>

ReadRoiV07 ==
    /\ file7 # None /\ file7.st = "ok"
    /\ roiRead7 = None
    /\ roiRead7' = read_roi_from_snapshot_v07(file7.blob, roi, chsel)
    /\ UNCHANGED <<file7, file8, wrote8, read7, read8, cross7, cross8, roiRead8,
                   snapInputs>>

ReadRoiV08 ==
    /\ wrote8 # None
    /\ roiRead8 = None
    /\ roiRead8' = IF file8 = None THEN Raise("FileNotFoundError")
                   ELSE read_roi_from_snapshot_v08(file8, roi, chsel)
    /\ UNCHANGED <<file7, file8, wrote8, read7, read8, cross7, cross8, roiRead7,
                   snapInputs>>

NextSnap7 == WriteSnapshotV07 \/ ReadSnapshotV07
SpecSnap7 == InitSnap7 /\ [][NextSnap7]_vars

NextSnap8 == WriteSnapshotV08 \/ ReadSnapshotV08
SpecSnap8 == InitSnap8 /\ [][NextSnap8]_vars

NextSnapRoi == WriteSnapshotV07 \/ WriteSnapshotV08 \/ ReadRoiV07 \/ ReadRoiV08
SpecSnapRoi == InitSnapRoi /\ [][NextSnapRoi]_vars

NextSnapCross ==
    \/ WriteSnapshotV07 \/ WriteSnapshotV08 \/ CorruptPrefix
    \/ ReadSnapshotV08 \/ CrossReadV07 \/ CrossReadV08
SpecSnapCross == InitSnapCross /\ [][NextSnapCross]_vars

\* ------------------------------------------------------------------------
\* Snapshot claims
\* ------------------------------------------------------------------------

\* the caller's ROI clamped to the snapshot's dims
ClampedRoi == clamp_roi(roi, vspec.dims)

\* C11: for every valid v0.7 snapshot and every ROI, zero-extent ROIs and
\* ROIs wholly outside the volume included, read_roi_from_snapshot_v07 does
\* not raise and returns a tensor whose spatial shape is the clamped ROI's
\* (d, h, w): an empty tensor when a clamped extent is 0.
C11_ZeroExtentReadable ==
    roiRead7 # None =>
        /\ roiRead7.st = "ok"
        /\ roiRead7.shape = <<ClampedRoi.d, ClampedRoi.h, ClampedRoi.w, vspec.channels>>

\* the ROI has voxels inside the volume and voxels or extent outside it
RoiOverhangs ==
    /\ AxisIntersects(roi.x, roi.w, vspec.dims[1])
    /\ AxisIntersects(roi.y, roi.h, vspec.dims[2])
    /\ AxisIntersects(roi.z, roi.d, vspec.dims[3])
    /\ ClampedRoi # roi

\* C12: read_roi_from_snapshot_v08, like read_roi_from_snapshot_v07, clamps
\* the caller's ROI to the snapshot's dims before read_region_from_bytes, so
\* an ROI that partly overhangs the volume yields the region of the clamped
\* ROI instead of an out-of-bounds error.
C12_SnapshotReadsClamp ==
    RoiOverhangs =>
        /\ roiRead7 # None =>
              roiRead7 = read_region_from_bytes(buf, vspec, ClampedRoi, chsel)
        /\ roiRead8 # None =>
              roiRead8 = read_region_from_bytes(buf, vspec, ClampedRoi, chsel)

\* C13: for every VolumeSpecV06 (positive dims and channels, supported dtype,
\* order C or F, signature C_CONTIG or F_CONTIG), every buffer of
\* expected_nbytes() bytes and every JSON-representable meta,
\* read_snapshot_v07(write_snapshot_v07(buf, spec, meta)) returns a spec equal
\* to the written one in every field (order included), the payload byte for
\* byte, and header.meta equal to meta.
C13_SnapshotV07RoundTrip ==
    /\ file7 # None => file7.st = "ok"
    /\ read7 # None =>
          /\ read7.st = "ok"
          /\ read7.spec = vspec
          /\ read7.payload = buf
          /\ py_eq(read7.header.meta, snapMeta)

\* meta as write_snapshot_v08 stores it: None and {} both as {}
MetaOrEmpty == IF snapMeta.t = "null" THEN PyDict(<<>>) ELSE snapMeta

\* the length of the v0.8 header the caller's arguments ask for
HeaderLenV08 ==
    SNAP_PREFIX_SIZE + SNAP_CORE_SIZE
        + 4 + Len(utf8_encode(snapSchema[1]))
        + 4 + Len(utf8_encode(snapSchema[2]))
        + 4 + Len(utf8_encode(json_dumps(MetaOrEmpty, FALSE, FALSE)))

RoundTripV08Holds ==
    /\ wrote8 # None => wrote8.st = "ok"
    /\ read8 # None =>
          /\ read8.st = "ok"
          /\ read8.spec = vspec
          /\ read8.payload = buf
          /\ read8.header.schema_id = snapSchema[1]
          /\ read8.header.schema_version = snapSchema[2]
          /\ py_eq(read8.header.meta, MetaOrEmpty)
          /\ read8.header.dims = vspec.dims
          /\ read8.header.order = vspec.order

C15_GenerationsRejected ==
    /\ cross8 # None => cross8.st = "err"
    /\ cross7 # None => cross7.st = "err"
    /\ (read8 # None /\ file8 # None /\ ~PrefixIntact(file8)) =>
          read8 = Raise("ValueError")

\* C15 witness: both readers have been handed the other generation's file,
\* and read_snapshot_v08 a v0.8 file whose version field is no longer 8
C15_Witness ==
    /\ cross7 # None /\ cross8 # None
    /\ read8 # None /\ read8.st = "err"
    /\ Slice(file8, 0, 8) = MAGIC_SNAP_V08
    /\ UnpackU16(Slice(file8, 8, 10)) # SNAP_VERSION_V08

\* ------------------------------------------------------------------------
\* Legacy codecs and the blob layout: inputs and operations
\* ------------------------------------------------------------------------

\* what no legacy call changes
legacyInputs ==
    <<legacyData, codecVars, roi, clampVars, tileVars, readVars, snapVars, packVars>>

\* data drawn for a legacy encoder: empty, two bytes, exactly the 4096 bytes
\* a v0.1 volume holds, and one byte more
LegacyDataInputs ==
    {[some |-> TRUE, data |-> d] :
        d \in {<<>>, <<255, 7>>, <<>> \o RampBuffer(MAX_PAYLOAD_V01),
               <<>> \o RampBuffer(MAX_PAYLOAD_V01 + 1)}}

NoLegacyCall ==
    /\ legacyEncoded = None /\ legacyBlob = <<>> /\ legacyDecoded = None

\* an encode_bytes_to_civd_v03 call on drawn inputs, or a legacy call
InitLayout ==
    /\ \/ /\ dims \in DimInputs
          /\ channels \in ChannelInputs
          /\ \E n \in LenInputs(dims, channels) : payload \in PayloadsOfLen(n)
          /\ legacyData = [some |-> FALSE]
       \/ /\ dims = <<1, 1, 1>> /\ channels = 1 /\ payload = <<>>
          /\ legacyData \in LegacyDataInputs
    /\ encoded = None /\ blob = <<>> /\ decoded = None
    /\ NoLegacyCall
    /\ RoiIdle /\ ClampIdle /\ TileIdle /\ ReadIdle /\ SnapIdle /\ PackIdle

EncodeCi3 ==
    /\ legacyData.some
    /\ legacyEncoded = None
    /\ \E out \in {encode_bytes_to_ci3(legacyData.data)} :
          /\ legacyEncoded' = [call |-> "encode_bytes_to_ci3", out |-> out]
          /\ legacyBlob' = IF out.st = "ok" THEN out.bytes ELSE <<>>
    /\ UNCHANGED <<legacyDecoded, legacyInputs>>

EncodeCi3V02 ==
    /\ legacyData.some
    /\ legacyEncoded = None
    /\ \E out \in {encode_bytes_to_ci3_v02(legacyData.data)} :
          /\ legacyEncoded' = [call |-> "encode_bytes_to_ci3_v02", out |-> out]
          /\ legacyBlob' = IF out.st = "ok" THEN out.bytes ELSE <<>>
    /\ UNCHANGED <<legacyDecoded, legacyInputs>>

NextLayout == Encode \/ EncodeCi3
SpecLayout == InitLayout /\ [][NextLayout]_vars

\* ------------------------------------------------------------------------
\* Blob layout claims
\* ------------------------------------------------------------------------

\* x*y*z*channels of the caller's geometry
GeometryProduct == dims[1] * dims[2] * dims[3] * channels

\* the geometry encode accepts and the header can carry
GeometryValid ==
    /\ dims[1] > 0 /\ dims[2] > 0 /\ dims[3] > 0 /\ channels > 0
    /\ CodecInputsFit

\* the blob is the 24-byte header, the payload, zero bytes up to the
\* capacity, and the CRC32 of those capacity bytes
EncodedLaidOut ==
    encoded.st = "ok" =>
        /\ Len(encoded.bytes) = HEADER_SIZE + GeometryProduct + FOOTER_SIZE
        /\ Slice(encoded.bytes, 0, 4) = MAGIC
        /\ UnpackU32(Slice(encoded.bytes, 16, 20)) = Len(payload)
        /\ \A i \in 1..GeometryProduct :
              encoded.bytes[HEADER_SIZE + i]
                  = (IF i <= Len(payload) THEN payload[i] ELSE 0)
        /\ Slice(encoded.bytes, HEADER_SIZE + GeometryProduct, Len(encoded.bytes))
              = Crc32(Slice(encoded.bytes, HEADER_SIZE, HEADER_SIZE + GeometryProduct))

\* the legacy encoder turns an empty payload into 24 + 4096 + 4 bytes
LegacyEmptyBlob ==
    (legacyEncoded # None /\ Len(legacyData.data) = 0) =>
        /\ legacyEncoded.out.st = "ok"
        /\ Len(legacyEncoded.out.bytes) = 24 + 4096 + 4

ForgedLengths(capacity) == {0, capacity, capacity + 1, U16_MAX + 1}

\* a corrupted or forged header between encode and decode: the orig_length
\* field (bytes 16..19) holds another value; the CRC32 covers the voxel
\* region only, so the footer still matches
ForgeOrigLength ==
    /\ encoded.st = "ok"
    /\ blob = encoded.bytes
    /\ decoded = None
    /\ \E n \in ForgedLengths(Len(blob) - HEADER_SIZE - FOOTER_SIZE) :
          /\ n # Len(payload)
          /\ blob' = Slice(blob, 0, 16) \o PackU32(n) \o Slice(blob, 20, Len(blob))
    /\ UNCHANGED <<payload, dims, channels, encoded, decoded, roi, clampVars,
                   tileVars, readVars, extVars>>

NextForge == Encode \/ ForgeOrigLength \/ Decode
SpecForge == InitCodec /\ [][NextForge]_vars

\* the header of the blob handed to decode
BlobHeader == HeaderUnpack(Slice(blob, 0, HEADER_SIZE))

\* C17: decode_civd_v03 raises for every blob whose header orig_length
\* exceeds x*y*z*channels, so a payload it returns is exactly orig_length
\* bytes long.
C17_DeclaredLengthChecked ==
    decoded # None =>
        /\ BlobHeader.orig_length
              > BlobHeader.dim_x * BlobHeader.dim_y * BlobHeader.dim_z * BlobHeader.channels
                  => decoded.st = "err"
        /\ decoded.st = "ok" => Len(decoded.payload) = BlobHeader.orig_length

\* ------------------------------------------------------------------------
\* Legacy codecs: tampering and decoding
\* ------------------------------------------------------------------------

InitLegacy ==
    /\ legacyData \in LegacyDataInputs
    /\ NoLegacyCall
    /\ CodecIdle /\ RoiIdle /\ ClampIdle /\ TileIdle /\ ReadIdle /\ SnapIdle /\ PackIdle

\* an encoded blob nothing has touched or decoded yet
LegacyBlobFresh ==
    /\ legacyEncoded # None /\ legacyEncoded.out.st = "ok"
    /\ legacyBlob = legacyEncoded.out.bytes
    /\ legacyDecoded = None

\* positions (1-based) whose byte a fault replaces: every header byte, the
\* first and the last voxel byte, and the first footer byte
FaultPositions(b) ==
    (1..HEADER_SIZE) \cup {HEADER_SIZE + 1, Len(b) - FOOTER_SIZE, Len(b) - FOOTER_SIZE + 1}

\* a storage or transmission fault: one byte of the blob is replaced
ReplaceByte ==
    /\ LegacyBlobFresh
    /\ \E pos \in FaultPositions(legacyBlob), v \in {0, 17} :
          /\ legacyBlob[pos] # v
          /\ legacyBlob' = [legacyBlob EXCEPT ![pos] = v]
    /\ UNCHANGED <<legacyEncoded, legacyDecoded, legacyInputs>>

\* a blob cut short (inside the header, inside the footer, by one byte) or
\* grown by one byte
ResizeBlob ==
    /\ LegacyBlobFresh
    /\ \E n \in {10, HEADER_SIZE + FOOTER_SIZE - 1, Len(legacyBlob) - 1, Len(legacyBlob) + 1} :
          legacyBlob' = IF n > Len(legacyBlob) THEN Append(legacyBlob, 0)
                        ELSE Slice(legacyBlob, 0, n)
    /\ UNCHANGED <<legacyEncoded, legacyDecoded, legacyInputs>>

DecodeCi3 ==
    /\ legacyEncoded # None /\ legacyEncoded.out.st = "ok"
    /\ legacyDecoded = None
    /\ legacyDecoded' = [call |-> "decode_ci3", out |-> decode_ci3(legacyBlob)]
    /\ UNCHANGED <<legacyEncoded, legacyBlob, legacyInputs>>

DecodeCi3V02 ==
    /\ legacyEncoded # None /\ legacyEncoded.out.st = "ok"
    /\ legacyDecoded = None
    /\ legacyDecoded' = [call |-> "decode_ci3_v02", out |-> decode_ci3_v02(legacyBlob)]
    /\ UNCHANGED <<legacyEncoded, legacyBlob, legacyInputs>>

NextLegacy ==
    \/ EncodeCi3 \/ EncodeCi3V02
    \/ ReplaceByte \/ ResizeBlob
    \/ DecodeCi3 \/ DecodeCi3V02
SpecLegacy == InitLegacy /\ [][NextLegacy]_vars

\* ------------------------------------------------------------------------
\* Legacy codec claims
\* ------------------------------------------------------------------------

\* the version and channel count the decoder that was called insists on
CalledVersion == IF legacyDecoded.call = "decode_ci3_v02" THEN 2 ELSE 1
CalledChannels == IF legacyDecoded.call = "decode_ci3_v02" THEN 4 ELSE 1
CalledCapacity == 16 * 16 * 16 * CalledChannels

\* the blob's header carries the magic, the version, 16x16x16 and the
\* channel count of the decoder called
LegacyHeaderValid ==
    /\ Len(legacyBlob) >= HEADER_SIZE
    /\ Slice(legacyBlob, 0, 4) = <<67, 73, 51, 0>>
    /\ UnpackU16(Slice(legacyBlob, 4, 6)) = CalledVersion
    /\ \A k \in 0..2 : UnpackU16(Slice(legacyBlob, 6 + 2 * k, 8 + 2 * k)) = 16
    /\ legacyBlob[13] = CalledChannels

\* len(blob) == 24 + capacity + 4
LegacySizeExact == Len(legacyBlob) = 24 + CalledCapacity + 4

\* the footer is the CRC32 of the whole voxel region
LegacyCrcMatches ==
    Slice(legacyBlob, 24 + CalledCapacity, 24 + CalledCapacity + 4)
        = Crc32(Slice(legacyBlob, 24, 24 + CalledCapacity))

\* orig_length <= capacity
LegacyLengthFits == UnpackU32(Slice(legacyBlob, 16, 20)) <= CalledCapacity

\* C18: decode_ci3 and decode_ci3_v02 return a payload only if header
\* validation, the exact total-length check, the CRC32 comparison and the
\* orig_length <= capacity check have all succeeded; the CRC is computed, and
\* payload bytes are copied, only after the length check has passed; a blob
\* failing any check raises and yields no payload.
C18_LegacyFailClosed ==
    legacyDecoded # None =>
        /\ legacyDecoded.out.st = "ok" =>
              /\ LegacyHeaderValid /\ LegacySizeExact
              /\ LegacyCrcMatches /\ LegacyLengthFits
        /\ (\E k \in 1..Len(legacyDecoded.out.ran) :
                legacyDecoded.out.ran[k] \in {"crc", "copy"}) => LegacySizeExact
        /\ legacyDecoded.out.st = "err" <=> "payload" \notin DOMAIN legacyDecoded.out

\* C18 witness: decode_ci3_v02 stopped at the CRC comparison, on a blob of
\* the right size whose header passed validation
C18_Witness ==
    /\ legacyDecoded # None
    /\ legacyDecoded.call = "decode_ci3_v02"
    /\ legacyDecoded.out.st = "err"
    /\ Len(legacyDecoded.out.ran) = 4
    /\ LegacyHeaderValid /\ LegacySizeExact

\* ------------------------------------------------------------------------
\* Tiles per axis: the three functions on the same inputs
\* ------------------------------------------------------------------------

\* sides without a wide part, from the rejected 0
NarrowSides == {WideOf(n) : n \in 0..MaxDim}

\* sides around 2^53: the last one a float holds exactly with its
\* neighbours, the ones after it, and 3 * 2^52 + 1, whose third is past 2^52
WideSides ==
    {<<2^26 - 1, Limb - 1>>, <<3 * 2^25, 1>>} \cup {<<2^26, k>> : k \in 0..3}

\* every narrow triple, and each wide side on each axis beside sides of 1
AxisDimInputs ==
    {<<x, y, z>> : x \in NarrowSides, y \in NarrowSides, z \in NarrowSides}
        \cup {<<w, WideOf(1), WideOf(1)>> : w \in WideSides}
        \cup {<<WideOf(1), w, WideOf(1)>> : w \in WideSides}
        \cup {<<WideOf(1), WideOf(1), w>> : w \in WideSides}

\* tile sides drawn: the rejected 0 and the sides up to one past MaxTile
AxisTileInputs ==
    {<<a, b, c>> : a \in 0..(MaxTile + 1), b \in 0..(MaxTile + 1),
                   c \in 0..(MaxTile + 1)}

axisInputs ==
    <<axisDims, axisTile, codecVars, roi, clampVars, tileVars, readVars,
      snapVars, legacyVars, tilingVars, lateVars>>

InitAxis ==
    /\ axisDims \in AxisDimInputs
    /\ axisTile \in AxisTileInputs
    /\ axisGrid = None /\ axisPack = None /\ axisV08 = None
    /\ CodecIdle /\ RoiIdle /\ ClampIdle /\ TileIdle /\ ReadIdle
    /\ SnapIdle /\ LegacyIdle /\ TilingIdle /\ LateIdle

\* TileGridSpecV07(dims=axisDims, tile=axisTile).grid_dims()
GridDims ==
    /\ axisGrid = None
    /\ axisGrid' = grid_dimsW(axisDims, axisTile)
    /\ UNCHANGED <<axisPack, axisV08, axisInputs>>

\* _compute_tiles_per_axis(axisDims, axisTile)
ComputeTilesPerAxis ==
    /\ axisPack = None
    /\ axisPack' = compute_tiles_per_axisW(axisDims, axisTile)
    /\ UNCHANGED <<axisGrid, axisV08, axisInputs>>

\* compute_tiling_spec_v08(axisDims, axisTile)
ComputeTilingSpecV08 ==
    /\ axisV08 = None
    /\ axisV08' = compute_tiling_spec_v08(axisDims, axisTile)
    /\ UNCHANGED <<axisGrid, axisPack, axisInputs>>

NextAxis == GridDims \/ ComputeTilesPerAxis \/ ComputeTilingSpecV08
SpecAxis == InitAxis /\ [][NextAxis]_vars

\* ------------------------------------------------------------------------
\* Tiles per axis claims
\* ------------------------------------------------------------------------

AxisTilePositive == axisTile[1] > 0 /\ axisTile[2] > 0 /\ axisTile[3] > 0

AxisDimsPositive ==
    ~WideIsZero(axisDims[1]) /\ ~WideIsZero(axisDims[2]) /\ ~WideIsZero(axisDims[3])

\* ceil(dim / tile_size) on each axis
AxisCeil ==
    <<WideCeil(axisDims[1], axisTile[1]), WideCeil(axisDims[2], axisTile[2]),
      WideCeil(axisDims[3], axisTile[3])>>

\* a call that was made came out as the claim says: the ceilings for a
\* positive tile size, an error otherwise
AxisAsClaimed(out) ==
    out # None =>
        IF AxisTilePositive THEN out.st = "ok" /\ out.tiles = AxisCeil
        ELSE out.st = "err"

\* every side is below 2^49, where a float quotient is whole only if the
\* quotient is
AxisDimsNarrow == \A i \in 1..3 : axisDims[i][1] < 2^22

\* C19: for all positive volume dims and every tile size, grid_dims,
\* _compute_tiles_per_axis and compute_tiling_spec_v08 each return
\* ceil(dim / tile_size) on every axis when all tile sides are positive, and
\* each raises when a tile side is <= 0.
C19_TilesPerAxisCeil ==
    AxisDimsPositive =>
        /\ AxisAsClaimed(axisGrid)
        /\ AxisAsClaimed(axisPack)
        /\ AxisAsClaimed(axisV08)

\* the two integer formulas give the ceilings at every width, and the float
\* formula gives them while every side is below 2^49
C19_IntegerFormulasCeil ==
    AxisDimsPositive =>
        /\ AxisAsClaimed(axisGrid)
        /\ AxisAsClaimed(axisV08)
        /\ (AxisDimsNarrow => AxisAsClaimed(axisPack))

\* all three were called on a wide side with a positive tile size
C19_WideCalled ==
    /\ AxisTilePositive /\ ~AxisDimsNarrow
    /\ axisGrid # None /\ axisPack # None /\ axisV08 # None

\* ------------------------------------------------------------------------
\* Tiling a volume buffer
\* ------------------------------------------------------------------------

TilingDimInputs ==
    {<<x, y, z>> : x \in 1..(MaxVol + 1), y \in 1..(MaxVol + 1), z \in 1..(MaxVol + 1)}

\* tile sizes drawn: every positive triple up to one past MaxTile, and one
\* rejected side on each axis
TileSizeInputs ==
    {<<a, b, c>> : a \in 1..(MaxTile + 1), b \in 1..(MaxTile + 1),
                   c \in 1..(MaxTile + 1)}
        \cup {<<0, 1, 1>>, <<1, 0, 1>>, <<1, 1, -1>>}

\* <<order, bytes added to the buffer>> that _full_volume_view refuses
TilingDefectInputs == {<<"K", 0>>, <<"C", 1>>, <<"C", -1>>}

\* tests/test_tile_pack_v07._make_test_volume: uint8, channel 0 a ramp and
\* channel 1 three times the ramp, both mod 256, further channels 0
make_test_volume(dm, ch) ==
    <<>> \o [p \in 1..(dm[1] * dm[2] * dm[3] * ch) |->
                LET v == (p - 1) \div ch
                    c == (p - 1) % ch
                IN  IF c = 0 THEN v % 256 ELSE IF c = 1 THEN (v * 3) % 256 ELSE 0]

\* the volume of test_tiling_basic
TestSpec == VolumeSpecV06(<<16, 16, 16>>, 2, "uint8", "C", "C_CONTIG")

InitTiling ==
    /\ \/ /\ \E dm \in TilingDimInputs, ch \in 1..MaxChannels, dt \in DtypeInputs :
                \/ /\ \E order \in {"C", "F"} :
                         vspec = VolumeSpecV06(dm, ch, dt, order, "C_CONTIG")
                   /\ buf = RampBuffer(expected_nbytes(vspec))
                   /\ tileSize \in TileSizeInputs
                \/ /\ \E bad \in TilingDefectInputs :
                         /\ vspec = VolumeSpecV06(dm, ch, dt, bad[1], "C_CONTIG")
                         /\ buf = RampBuffer(expected_nbytes(vspec) + bad[2])
                   /\ tileSize \in {<<1, 1, 1>>, <<0, 1, 1>>}
       \/ /\ vspec = TestSpec
          /\ buf = make_test_volume(TestSpec.dims, TestSpec.channels)
          /\ tileSize = <<8, 8, 8>>
    /\ tiled = None
    /\ chsel = [some |-> FALSE] /\ region = None
    /\ CodecIdle /\ RoiIdle /\ ClampIdle /\ TileIdle
    /\ SnapIdle /\ LegacyIdle /\ AxisIdle /\ LateIdle

\* tile_volume_buffer(buf, vspec, tileSize)
TileVolumeBuffer ==
    /\ tiled = None
    /\ tiled' = tile_volume_buffer(buf, vspec, tileSize)
    /\ UNCHANGED <<tileSize, codecVars, roi, clampVars, tileVars, readVars,
                   snapVars, legacyVars, axisVars, lateVars>>

NextTiling == TileVolumeBuffer
SpecTiling == InitTiling /\ [][NextTiling]_vars

\* ------------------------------------------------------------------------
\* Tiling claims
\* ------------------------------------------------------------------------

\* a C-order buffer of the size the spec expects, and a positive tile size
TilingCase ==
    /\ vspec.order = "C" /\ Len(buf) = expected_nbytes(vspec)
    /\ tileSize[1] > 0 /\ tileSize[2] > 0 /\ tileSize[3] > 0

\* tiles on axis n: ceil(dim / tile_size)
TilesOnAxis(n) == (vspec.dims[n] + tileSize[n] - 1) \div tileSize[n]

\* the tiles_x * tiles_y * tiles_z grid indices
TilingIndices ==
    {TileIndexV07(tx, ty, tz) : tx \in 0..(TilesOnAxis(1) - 1),
        ty \in 0..(TilesOnAxis(2) - 1), tz \in 0..(TilesOnAxis(3) - 1)}

\* the half-open range of tile i on axis n, cut at the volume's edge
BlockLo(i, n) == i * tileSize[n]
BlockHi(i, n) == Min((i + 1) * tileSize[n], vspec.dims[n])

\* bytes per voxel
VoxelBytes == vspec.channels * itemsize(vspec.dtype)

\* the voxels [x0, x1) x [y0, y1) x [z0, z1) of a C-order (z, y, x, C) buffer,
\* serialized row-major: for each z, then each y, the run of bytes that
\* holds the voxels x0..x1-1 of that row
SubBlockBytes(x0, x1, y0, y1, z0, z1) ==
    Concat(<<>> \o [r \in 1..((z1 - z0) * (y1 - y0)) |->
        LET z == z0 + ((r - 1) \div (y1 - y0))
            y == y0 + ((r - 1) % (y1 - y0))
            row == (z * vspec.dims[2] + y) * vspec.dims[1]
        IN  Slice(buf, (row + x0) * VoxelBytes, (row + x1) * VoxelBytes)])

\* the tile buffers one after another, in the order of the loops
AllTileBytes ==
    LET order == LoopZYX(0, TilesOnAxis(3), 0, TilesOnAxis(2), 0, TilesOnAxis(1))
    IN  Concat(<<>> \o [k \in DOMAIN order |-> tiled.tiles[order[k]]])

\* C20: for a C-order volume buffer and a positive tile size,
\* tile_volume_buffer returns exactly one buffer for each grid index; the
\* buffer of (tx, ty, tz) is the row-major (z, y, x, C) serialization of
\* the voxel block [tx*Tx, min((tx+1)*Tx, X)) x [ty*Ty, ...) x [tz*Tz, ...),
\* so it has (x1-x0)*(y1-y0)*(z1-z0)*channels*itemsize bytes (8*8*8*2 for
\* each of the 8 tiles of the 16^3 two-channel uint8 volume tiled by 8^3),
\* and the tile lengths sum to the volume's byte size.
C20_TilesAreSubBlocks ==
    (tiled # None /\ TilingCase) =>
        /\ tiled.st = "ok"
        /\ DOMAIN tiled.tiles = TilingIndices
        /\ Cardinality(DOMAIN tiled.tiles)
              = TilesOnAxis(1) * TilesOnAxis(2) * TilesOnAxis(3)
        /\ \A idx \in TilingIndices :
              LET x0 == BlockLo(idx.tx, 1)
                  x1 == BlockHi(idx.tx, 1)
                  y0 == BlockLo(idx.ty, 2)
                  y1 == BlockHi(idx.ty, 2)
                  z0 == BlockLo(idx.tz, 3)
                  z1 == BlockHi(idx.tz, 3)
              IN  /\ tiled.tiles[idx] = SubBlockBytes(x0, x1, y0, y1, z0, z1)
                  /\ Len(tiled.tiles[idx])
                        = (x1 - x0) * (y1 - y0) * (z1 - z0) * VoxelBytes
        /\ Len(AllTileBytes) = Len(buf)
        /\ (vspec = TestSpec /\ tileSize = <<8, 8, 8>>) =>
              /\ Cardinality(DOMAIN tiled.tiles) = 8
              /\ \A idx \in DOMAIN tiled.tiles : Len(tiled.tiles[idx]) = 8 * 8 * 8 * 2

\* a volume cut into several tiles, the last one on the x axis clipped, with
\* more than one channel and more than one byte per element
C20_Witness ==
    /\ tiled # None /\ TilingCase /\ tiled.st = "ok"
    /\ TilesOnAxis(1) > 1 /\ vspec.dims[1] % tileSize[1] # 0
    /\ TilesOnAxis(2) > 1 /\ TilesOnAxis(3) > 1
    /\ vspec.channels > 1 /\ itemsize(vspec.dtype) > 1

\* the volume of test_tiling_basic was tiled
C20_TestVolumeTiled ==
    tiled # None /\ vspec = TestSpec /\ tileSize = <<8, 8, 8>> /\ tiled.st = "ok"

\* ------------------------------------------------------------------------
\* Tiling an array and assembling it again
\* ------------------------------------------------------------------------

\* volume sides (x, y, z) drawn for the tiler
AsmDimInputs ==
    {<<x, y, z>> : x \in 1..(MaxVol + 1), y \in 1..MaxVol, z \in 1..MaxVol}

\* tile sides drawn for the tiler
AsmTileInputs ==
    {<<a, b, c>> : a \in 1..MaxTile, b \in 1..MaxTile, c \in 1..MaxTile}

\* fill values drawn: the default, and one no voxel of the volume holds
FillInputs == {0, -1}

\* <<added to the z side, added to the channels>> of the array: the array
\* the manifest describes, and two that tile_volume refuses
VolumeDefectInputs == {<<0, 0>>, <<1, 0>>, <<0, 1>>}

\* np.arange(n).reshape(shape): element t holds its C-order position
arange_reshape(shape) ==
    [shape |-> shape,
     data |-> [t \in Indices4(shape) |->
                  ((t[1] * shape[2] + t[2]) * shape[3] + t[3]) * shape[4] + t[4]]]

\* the subsets of the tiles that are drawn: all, none, each single tile, and
\* all but each single tile
KeptInputs(all) ==
    {all, {}} \cup {{i} : i \in all} \cup {all \ {i} : i \in all}

InitAsm ==
    /\ \E dm \in AsmDimInputs, tl \in AsmTileInputs, ch \in 1..MaxChannels,
          bad \in VolumeDefectInputs :
          /\ manifest = TileManifestV07(TileGridSpecV07(dm, tl), ch, "int32")
          /\ volume = arange_reshape(<<dm[3] + bad[1], dm[2], dm[1], ch + bad[2]>>)
    /\ fillValue \in FillInputs
    /\ tvTiles = None /\ tvKept = None /\ assembled = None
    /\ EarlyIdle /\ Pad8Idle /\ HdrIdle /\ NameIdle /\ DirIdle /\ GeoIdle

\* tile_volume(volume, manifest)
TileVolume ==
    /\ tvTiles = None
    /\ tvTiles' = tile_volume(volume, manifest)
    /\ UNCHANGED <<manifest, volume, tvKept, fillValue, assembled, earlyVars,
                   pad8Vars, hdrVars, nameVars, dirVars, geoVars>>

\* assemble_volume_from_tiles(manifest, tiles, fill_value) with some of the
\* tiles that tile_volume returned
Assemble ==
    /\ tvTiles # None /\ tvTiles.st = "ok" /\ assembled = None
    /\ \E S \in KeptInputs(DOMAIN tvTiles.tiles) :
          /\ tvKept' = [i \in S |-> tvTiles.tiles[i]]
          /\ assembled' = assemble_volume_from_tiles(manifest, tvKept', fillValue)
    /\ UNCHANGED <<manifest, volume, tvTiles, fillValue, earlyVars,
                   pad8Vars, hdrVars, nameVars, dirVars, geoVars>>

NextAsm == TileVolume \/ Assemble
SpecAsm == InitAsm /\ [][NextAsm]_vars

\* ------------------------------------------------------------------------
\* Assembling claims
\* ------------------------------------------------------------------------

\* the grid index of the tile that holds element t of the (z, y, x, C) array
TileOfVoxel(t) ==
    TileIndexV07(t[3] \div manifest.grid.tile[1], t[2] \div manifest.grid.tile[2],
                 t[1] \div manifest.grid.tile[3])

\* every tile of the grid
AllGridTiles ==
    LET gd == grid_dims(manifest.grid)
    IN  {TileIndexV07(tx, ty, tz) :
            tx \in 0..(gd[1] - 1), ty \in 0..(gd[2] - 1), tz \in 0..(gd[3] - 1)}

\* C21: for a volume that matches the manifest and any subset S of the
\* tiles tile_volume returned, assemble_volume_from_tiles does not raise;
\* its result has the volume's shape, equals the volume on every voxel of a
\* tile in S and holds fill_value on every other voxel; with every tile in
\* S the result is the volume.
C21_AssembleSubset ==
    assembled # None =>
        /\ assembled.st = "ok"
        /\ assembled.shape = volume.shape
        /\ \A t \in Indices4(volume.shape) :
              assembled.data[t] =
                  IF TileOfVoxel(t) \in DOMAIN tvKept THEN volume.data[t]
                  ELSE fillValue
        /\ DOMAIN tvKept = AllGridTiles =>
              [shape |-> assembled.shape, data |-> assembled.data] = volume

\* a tile is missing and a tile is present, the grid has more than one tile
\* per axis somewhere, and the fill value differs from the voxels it replaces
C21_Witness ==
    /\ assembled # None /\ assembled.st = "ok"
    /\ DOMAIN tvKept # {} /\ DOMAIN tvKept # AllGridTiles
    /\ fillValue = -1
    /\ manifest.grid.dims[1] = MaxVol + 1 /\ manifest.grid.tile[1] = MaxTile
    /\ \E t \in Indices4(volume.shape) : assembled.data[t] = fillValue
    /\ \E t \in Indices4(volume.shape) : assembled.data[t] = volume.data[t]

\* ------------------------------------------------------------------------
\* Tile files: header and payload
\* ------------------------------------------------------------------------

\* <<tile_format_ver, header_len, dtype, signature, order>>: every
\* combination to_bytes accepts, and one thing wrong at a time
HeaderKindInputs ==
    {<<8, 64, d, s, o>> : d \in {"uint8", "uint16", "float32"},
                          s \in {"C_CONTIG", "F_CONTIG"}, o \in {"C", "F"}}
        \cup {<<7, 64, "uint8", "C_CONTIG", "C">>, <<8, 32, "uint8", "C_CONTIG", "C">>,
              <<8, 64, "int32", "C_CONTIG", "C">>, <<8, 64, "uint8", "MORTON", "C">>,
              <<8, 64, "uint8", "C_CONTIG", "K">>}

\* <<flags, <<tx, ty, tz>>, tile_size, channels, payload_nbytes>>: values of
\* one, two and three bytes, and one negative coordinate
HeaderValueInputs ==
    {<<0, <<0, 0, 0>>, <<1, 2, 3>>, 1, 0>>,
     <<0, <<1, 2, 3>>, <<8, 8, 8>>, 2, 3>>,
     <<1, <<258, 1, 65539>>, <<256, 1, 70000>>, 513, 300>>,
     <<65536, <<0, 255, 256>>, <<3, 2, 1>>, 4, 1>>,
     <<0, <<-1, 0, 0>>, <<1, 1, 1>>, 1, 1>>}

HeaderInputs ==
    {TileHeaderV08(k[1], k[2], v[1], v[2][1], v[2][2], v[2][3], v[3], v[4],
                   k[3], k[4], k[5], v[5]) :
        k \in HeaderKindInputs, v \in HeaderValueInputs}

\* payloads drawn: none, one byte, three bytes, and the magic itself
TilePayloadInputs == {<<>>, <<7>>, <<1, 2, 3>>, MAGIC_TILE_V08}

\* <<tile index, tile_size, dtype>> drawn for write_tile_pack_v08
WriteTileInputs ==
    {<<TileIndexV07(tx, 1, tz), ts, dt>> :
        tx \in {0, 1}, tz \in {0, 2}, ts \in {<<2, 2, 2>>, <<1, 2, 3>>},
        dt \in {"uint8", "float32", "int32"}}

\* <<offset, byte>> edits of one byte of a tile file, and lengths a file is
\* cut to
ByteEditInputs == {<<0, 0>>, <<7, 70>>, <<8, 7>>, <<10, 32>>, <<44, 9>>,
                   <<46, 0>>, <<48, 3>>, <<56, 2>>}
CutInputs == {0, 4, 8, 11, 63, 64, 65}

\* a file as a writer left it
FileOf(packed, body) ==
    IF packed.st = "ok"
    THEN [st |-> "ok", bytes |-> packed.bytes \o body, edited |-> FALSE]
    ELSE packed

InitHdr ==
    /\ tileHdr = None /\ tileFile = None
    /\ tilePayload \in TilePayloadInputs
    /\ hdrParsed = None /\ autoRead = None
    /\ EarlyIdle /\ Pad8Idle /\ AsmIdle /\ NameIdle /\ DirIdle /\ GeoIdle

\* hdr.to_bytes() + payload for any header
PackHeader ==
    /\ tileFile = None
    /\ \E h \in HeaderInputs :
          /\ tileHdr' = h
          /\ tileFile' = FileOf(TileHeaderV08_to_bytes(h), tilePayload)
    /\ UNCHANGED <<tilePayload, hdrParsed, autoRead, earlyVars, pad8Vars,
                   asmVars, nameVars, dirVars, geoVars>>

\* the file write_tile_pack_v08 writes for one tile
WriteTileV08 ==
    /\ tileFile = None
    /\ \E w \in WriteTileInputs, order \in {"C", "F"}, add_tile_headers \in BOOLEAN :
          IF add_tile_headers
          THEN /\ tileHdr' = TileHeaderV08(8, 64, 0, w[1].tx, w[1].ty, w[1].tz, w[2],
                                           2, w[3], "C_CONTIG", order, Len(tilePayload))
               /\ tileFile' = FileOf(TileHeaderV08_to_bytes(tileHdr'), tilePayload)
          ELSE /\ tileHdr' = None
               /\ tileFile' = [st |-> "ok", bytes |-> tilePayload, edited |-> FALSE]
    /\ UNCHANGED <<tilePayload, hdrParsed, autoRead, earlyVars, pad8Vars,
                   asmVars, nameVars, dirVars, geoVars>>

\* something else rewrites one byte of the file, or cuts it, or adds a byte
EditFile ==
    /\ tileFile # None /\ tileFile.st = "ok" /\ ~tileFile.edited
    /\ hdrParsed = None /\ autoRead = None
    /\ \/ \E e \in ByteEditInputs :
             /\ e[1] < Len(tileFile.bytes)
             /\ tileFile' = [tileFile EXCEPT !.bytes[e[1] + 1] = e[2], !.edited = TRUE]
       \/ \E n \in CutInputs :
             /\ n < Len(tileFile.bytes)
             /\ tileFile' = [tileFile EXCEPT !.bytes = Slice(@, 0, n), !.edited = TRUE]
       \/ tileFile' = [tileFile EXCEPT !.bytes = @ \o <<0>>, !.edited = TRUE]
    /\ UNCHANGED <<tileHdr, tilePayload, hdrParsed, autoRead, earlyVars, pad8Vars,
                   asmVars, nameVars, dirVars, geoVars>>

\* try_parse_tile_header_v08(blob)
TryParseTileHeader ==
    /\ tileFile # None /\ tileFile.st = "ok" /\ hdrParsed = None
    /\ hdrParsed' = [st |-> "done", ret |-> try_parse_tile_header_v08(tileFile.bytes)]
    /\ UNCHANGED <<tileHdr, tilePayload, tileFile, autoRead, earlyVars, pad8Vars,
                   asmVars, nameVars, dirVars, geoVars>>

\* read_tile_file_payload_auto(path)
ReadTileFileAuto ==
    /\ tileFile # None /\ tileFile.st = "ok" /\ autoRead = None
    /\ autoRead' = read_tile_file_payload_auto(tileFile.bytes)
    /\ UNCHANGED <<tileHdr, tilePayload, tileFile, hdrParsed, earlyVars, pad8Vars,
                   asmVars, nameVars, dirVars, geoVars>>

NextHdr ==
    PackHeader \/ WriteTileV08 \/ EditFile \/ TryParseTileHeader \/ ReadTileFileAuto
SpecHdr == InitHdr /\ [][NextHdr]_vars

\* ------------------------------------------------------------------------
\* Tile file claims
\* ------------------------------------------------------------------------

\* a header of format 8 and length 64 with a dtype, signature and order of
\* the tables and no value outside its field
HeaderInClaim(h) ==
    /\ h.tile_format_ver = 8 /\ h.header_len = 64
    /\ h.dtype \in {"uint8", "uint16", "float32"}
    /\ h.signature \in {"C_CONTIG", "F_CONTIG"} /\ h.order \in {"C", "F"}
    /\ \A v \in {h.flags, h.tx, h.ty, h.tz, h.tile_size[1], h.tile_size[2],
                 h.tile_size[3], h.channels, h.payload_nbytes} : v >= 0

\* C22: for a header of format 8, length 64, dtype uint8 / uint16 / float32,
\* signature C_CONTIG / F_CONTIG, order C / F and values inside their fields,
\* to_bytes does not raise and try_parse_tile_header_v08(hdr.to_bytes() +
\* payload) is a header equal to hdr in every field; a tile file that
\* write_tile_pack_v08 wrote with a header is read back by
\* read_tile_file_payload_auto as that header and the payload's bytes.
C22_TileHeaderRoundTrip ==
    (tileHdr # None /\ tileFile # None /\ HeaderInClaim(tileHdr)) =>
        /\ tileFile.st = "ok"
        /\ (~tileFile.edited /\ hdrParsed # None) =>
               hdrParsed.ret = [st |-> "ok", hdr |-> tileHdr]
        /\ (~tileFile.edited /\ autoRead # None
                /\ tileHdr.payload_nbytes = Len(tilePayload)) =>
               autoRead = [st |-> "ok", hdr |-> tileHdr, payload |-> tilePayload]

\* a header with values of several bytes and different tile sides went
\* through to_bytes and try_parse with a payload behind it, and was read
\* back from the file
C22_Witness ==
    /\ tileHdr # None /\ tileFile # None /\ HeaderInClaim(tileHdr)
    /\ tileFile.st = "ok" /\ ~tileFile.edited
    /\ hdrParsed # None /\ autoRead # None /\ autoRead.st = "ok"
    /\ autoRead.hdr = tileHdr /\ hdrParsed.ret.hdr = tileHdr
    /\ tileHdr.tile_size = <<1, 2, 3>> /\ tileHdr.tz = 2 /\ tileHdr.dtype = "float32"
    /\ Len(tilePayload) = 3

\* a packed header whose fields need more than one byte is parsed back
C22_WideFields ==
    /\ tileHdr # None /\ tileFile # None /\ HeaderInClaim(tileHdr)
    /\ tileFile.st = "ok" /\ ~tileFile.edited /\ hdrParsed # None
    /\ tileHdr.tz = 65539 /\ tileHdr.channels = 513 /\ tileHdr.order = "F"
    /\ hdrParsed.ret.st = "ok" /\ hdrParsed.ret.hdr = tileHdr

\* the file begins with the 8 bytes of the magic
BeginsWithMagic(bytes) == Slice(bytes, 0, 8) = MAGIC_TILE_V08

\* C23: read_tile_file_payload_auto returns (None, whole file) exactly when
\* the file does not begin with the magic CIVDTILE; a file that begins with
\* the magic is returned as (header, payload) with len(payload) =
\* header.payload_nbytes or raises, and is never returned without a header.
C23_HeaderlessIffNoMagic ==
    (tileFile # None /\ tileFile.st = "ok" /\ autoRead # None) =>
        IF BeginsWithMagic(tileFile.bytes)
        THEN \/ autoRead.st = "err"
             \/ /\ autoRead.st = "ok" /\ autoRead.hdr # None
                /\ Len(autoRead.payload) = autoRead.hdr.payload_nbytes
        ELSE autoRead = [st |-> "ok", hdr |-> None, payload |-> tileFile.bytes]

\* what the code does: a headerless result exactly when try_parse returns
\* None, which covers files that begin with the magic but are shorter than
\* 64 bytes or carry another format version, header length or unknown code
C23_HeaderlessIffNotParsed ==
    (tileFile # None /\ tileFile.st = "ok" /\ autoRead # None) =>
        /\ (autoRead.st = "ok" /\ autoRead.hdr = None)
              <=> try_parse_tile_header_v08(tileFile.bytes) = None
        /\ ~BeginsWithMagic(tileFile.bytes) =>
              autoRead = [st |-> "ok", hdr |-> None, payload |-> tileFile.bytes]

\* a file that begins with the magic came back as a headerless payload
C23_MagicButHeaderless ==
    /\ tileFile # None /\ tileFile.st = "ok" /\ autoRead # None
    /\ BeginsWithMagic(tileFile.bytes)
    /\ autoRead = [st |-> "ok", hdr |-> None, payload |-> tileFile.bytes]

\* ------------------------------------------------------------------------
\* Tile names
\* ------------------------------------------------------------------------

\* coordinates drawn for a tile index: one and two digits
NameCoordInputs == {0, 1, 9, 10, 12}

\* directory prefixes drawn: none, "d/", and "tile_tx1/e_f/"
NamePrefixInputs == {<<>>, <<100, 47>>, <<116, 105, 108, 101, 95, 116, 120, 49, 47, 101, 95, 102, 47>>}

\* names that are not tile names:
\*   "tile_tx1_zz2_qq3.bin"       other letters where ty and tz belong
\*   "tile_tx 1_ty2_tz3.bin"      a blank before a coordinate
\*   "tile_tx+1_ty2_tz3.bin"      a plus sign before a coordinate
\*   "tile_tx1_ty2_tz3 .bin"      a blank after the last coordinate
\*   "tile_tx1_ty2_tz3"           no extension
\*   "tile_tx1_ty2.bin"           two coordinates
\*   "tile_tx1_ty2_tz3_tw4.bin"   four coordinates
\*   "tile_txx_ty2_tz3.bin"       a letter for a coordinate
\*   "Tile_tx1_ty2_tz3.bin"       an upper-case head
\*   "tile_tx_ty2_tz3.bin"        an empty coordinate
\*   "tile_tx1_2_3.bin"           bare numbers
\*   "tile_tx.bin"                the head and the extension alone
\*   "tile_tx1_ty2_tz3.bin/"      a trailing slash
\*   ".bin"                       the extension alone
ForeignNameInputs ==
    {<<116, 105, 108, 101, 95, 116, 120, 49, 95, 122, 122, 50, 95, 113, 113, 51, 46, 98, 105, 110>>,
     <<116, 105, 108, 101, 95, 116, 120, 32, 49, 95, 116, 121, 50, 95, 116, 122, 51, 46, 98, 105, 110>>,
     <<116, 105, 108, 101, 95, 116, 120, 43, 49, 95, 116, 121, 50, 95, 116, 122, 51, 46, 98, 105, 110>>,
     <<116, 105, 108, 101, 95, 116, 120, 49, 95, 116, 121, 50, 95, 116, 122, 51, 32, 46, 98, 105, 110>>,
     <<116, 105, 108, 101, 95, 116, 120, 49, 95, 116, 121, 50, 95, 116, 122, 51>>,
     <<116, 105, 108, 101, 95, 116, 120, 49, 95, 116, 121, 50, 46, 98, 105, 110>>,
     <<116, 105, 108, 101, 95, 116, 120, 49, 95, 116, 121, 50, 95, 116, 122, 51, 95, 116, 119, 52, 46, 98, 105, 110>>,
     <<116, 105, 108, 101, 95, 116, 120, 120, 95, 116, 121, 50, 95, 116, 122, 51, 46, 98, 105, 110>>,
     <<84, 105, 108, 101, 95, 116, 120, 49, 95, 116, 121, 50, 95, 116, 122, 51, 46, 98, 105, 110>>,
     <<116, 105, 108, 101, 95, 116, 120, 95, 116, 121, 50, 95, 116, 122, 51, 46, 98, 105, 110>>,
     <<116, 105, 108, 101, 95, 116, 120, 49, 95, 50, 95, 51, 46, 98, 105, 110>>,
     <<116, 105, 108, 101, 95, 116, 120, 46, 98, 105, 110>>,
     <<116, 105, 108, 101, 95, 116, 120, 49, 95, 116, 121, 50, 95, 116, 122, 51, 46, 98, 105, 110, 47>>,
     <<46, 98, 105, 110>>}

InitName ==
    /\ \E tx \in NameCoordInputs, ty \in NameCoordInputs, tz \in NameCoordInputs :
          tileIdx = TileIndexV07(tx, ty, tz)
    /\ tileName = <<>> /\ nameParsed = None
    /\ EarlyIdle /\ Pad8Idle /\ AsmIdle /\ HdrIdle /\ DirIdle /\ GeoIdle

\* tile_index_to_name(tileIdx), behind a directory or not
NameTile ==
    /\ tileName = <<>>
    /\ \E prefix \in NamePrefixInputs :
          tileName' = prefix \o tile_index_to_name(tileIdx)
    /\ UNCHANGED <<tileIdx, nameParsed, earlyVars, pad8Vars, asmVars, hdrVars,
                   dirVars, geoVars>>

\* a name that came from somewhere else
ForeignName ==
    /\ tileName = <<>> /\ nameParsed = None
    /\ tileName' \in ForeignNameInputs
    /\ tileIdx' = None
    /\ UNCHANGED <<nameParsed, earlyVars, pad8Vars, asmVars, hdrVars, dirVars,
                   geoVars>>

\* name_to_tile_index(tileName)
NameToTileIndex ==
    /\ tileName # <<>> /\ nameParsed = None
    /\ nameParsed' = name_to_tile_index(tileName)
    /\ UNCHANGED <<tileIdx, tileName, earlyVars, pad8Vars, asmVars, hdrVars,
                   dirVars, geoVars>>

NextName == NameTile \/ ForeignName \/ NameToTileIndex
SpecName == InitName /\ [][NextName]_vars

\* ------------------------------------------------------------------------
\* Tile name claims
\* ------------------------------------------------------------------------

\* s is one or more decimal digits
IsDigits(s) == Len(s) > 0 /\ \A i \in 1..Len(s) : s[i] >= 48 /\ s[i] <= 57

\* base has the form tile_tx<TX>_ty<TY>_tz<TZ>.bin with decimal digits for
\* TX, TY and TZ
IsTileNameForm(base) ==
    \E a \in 1..Len(base), b \in 1..Len(base), c \in 1..Len(base) :
        /\ Len(base) = 17 + a + b + c
        /\ SubSeq(base, 1, 7) = NAME_HEAD
        /\ IsDigits(SubSeq(base, 8, 7 + a))
        /\ SubSeq(base, 8 + a, 10 + a) = NAME_TY
        /\ IsDigits(SubSeq(base, 11 + a, 10 + a + b))
        /\ SubSeq(base, 11 + a + b, 13 + a + b) = NAME_TZ
        /\ IsDigits(SubSeq(base, 14 + a + b, 13 + a + b + c))
        /\ SubSeq(base, 14 + a + b + c, 17 + a + b + c) = NAME_TAIL

\* the indices that can be named
NameIndexInputs ==
    {TileIndexV07(tx, ty, tz) :
        tx \in NameCoordInputs, ty \in NameCoordInputs, tz \in NameCoordInputs}

\* C24 (round trip): the name of an index with non-negative coordinates has
\* the form tile_tx<TX>_ty<TY>_tz<TZ>.bin, name_to_tile_index gives the index
\* back, also behind a directory path, and no other index has that name.
C24_NameRoundTrip ==
    (tileIdx # None /\ tileName # <<>>) =>
        /\ IsTileNameForm(os_path_basename(tileName))
        /\ os_path_basename(tileName) = tile_index_to_name(tileIdx)
        /\ \A other \in NameIndexInputs :
              other # tileIdx => tile_index_to_name(other) # tile_index_to_name(tileIdx)
        /\ nameParsed # None => nameParsed = [st |-> "ok", idx |-> tileIdx]

\* C24: the name of an index is tile_tx<TX>_ty<TY>_tz<TZ>.bin and parses
\* back to the index, distinct indices have distinct names, and
\* name_to_tile_index raises an error for a name that is not of that form.
C24_NameFormOrError ==
    /\ C24_NameRoundTrip
    /\ (nameParsed # None /\ ~IsTileNameForm(os_path_basename(tileName))) =>
           nameParsed.st = "err"

\* a name that is not of the form was parsed to an index
C24_ForeignNameAccepted ==
    /\ nameParsed # None /\ nameParsed.st = "ok"
    /\ ~IsTileNameForm(os_path_basename(tileName))

\* a name behind a directory path was parsed back to its index
C24_RoundTripReached ==
    /\ tileIdx # None /\ nameParsed # None /\ nameParsed.st = "ok"
    /\ nameParsed.idx = tileIdx /\ tileIdx.tx = 12 /\ tileIdx.tz = 9
    /\ os_path_basename(tileName) # tileName

\* ------------------------------------------------------------------------
\* Tile packs on disk
\* ------------------------------------------------------------------------

\* <<volume dims, tile size>> of the packs drawn
PackShapeInputs ==
    {<<dm, ts>> : dm \in {<<1, 1, 1>>, <<2, 1, 1>>, <<3, 1, 1>>, <<2, 2, 1>>},
                  ts \in {<<1, 1, 1>>, <<2, 1, 1>>, <<2, 2, 2>>}}

\* a volume whose bytes count down from 255
CountdownBuffer(n) == <<>> \o [i \in 1..n |-> 255 - ((i - 1) % 256)]

\* the items of the dict tile_volume_buffer returned, in insertion order
tiles_items(out) ==
    LET per == out.tiling_spec.tiles_per_axis
        walk == LoopZYX(0, per[3], 0, per[2], 0, per[1])
    IN  SelectSeq(<<>> \o [k \in DOMAIN walk |->
                      IF walk[k] \in DOMAIN out.tiles
                      THEN <<walk[k], out.tiles[walk[k]]>> ELSE <<>>],
                  LAMBDA item : item # <<>>)

\* packDir is the directory: its files and how many packs went into it
InitDir ==
    /\ packDir = [files |-> <<>>, packs |-> 0]
    /\ packSpec = None /\ packTiles = None /\ packLoaded = None
    /\ EarlyIdle /\ Pad8Idle /\ AsmIdle /\ HdrIdle /\ NameIdle /\ GeoIdle

\* write_tile_pack(out_dir, tiling_spec, tiles) with what tile_volume_buffer
\* returned for some volume; at most two packs go into the directory
WriteTilePack ==
    /\ packDir.packs < 2
    /\ \E shape \in PackShapeInputs, ch \in 1..MaxChannels :
          LET sp == VolumeSpecV06(shape[1], ch, "uint8", "C", "C_CONTIG")
              data == IF packDir.packs = 0 THEN RampBuffer(expected_nbytes(sp))
                      ELSE CountdownBuffer(expected_nbytes(sp))
              out == tile_volume_buffer(data, sp, shape[2])
          IN  /\ packSpec' = out.tiling_spec
              /\ packTiles' = tiles_items(out)
              /\ packDir' = [files |-> write_tile_pack(packDir.files, packSpec', packTiles'),
                             packs |-> packDir.packs + 1]
    /\ packLoaded' = None
    /\ UNCHANGED <<earlyVars, pad8Vars, asmVars, hdrVars, nameVars, geoVars>>

\* load_tile_manifest(out_dir)
LoadTileManifest ==
    /\ packLoaded = None
    /\ packLoaded' = load_tile_manifest(packDir.files)
    /\ UNCHANGED <<packDir, packSpec, packTiles, earlyVars, pad8Vars, asmVars,
                   hdrVars, nameVars, geoVars>>

NextDir == WriteTilePack \/ LoadTileManifest
SpecDir == InitDir /\ [][NextDir]_vars

\* ------------------------------------------------------------------------
\* Tile pack claims
\* ------------------------------------------------------------------------

\* the "tiles" list of the manifest among files
ManifestEntries(files) ==
    With(utf8_decode(files[TILE_MANIFEST_FILENAME]), LAMBDA text :
        With(json_loads(text.s), LAMBDA data :
            dict_get(data.v.pairs, KEY_TILES, PyList(<<>>)).items))

\* one of the entries records nbytes n for the file called name
EntryRecords(entries, name, n) ==
    \E e \in DOMAIN entries :
        /\ dict_get(entries[e].pairs, KEY_FILENAME, PyNone) = PyStr(name)
        /\ dict_get(entries[e].pairs, KEY_NBYTES, PyNone) = PyInt(n)

\* C25: after write_tile_pack the directory holds the manifest and, for
\* every tile index of the tiles written, a file named tile_index_to_name(idx)
\* that holds that tile's bytes and whose size is the nbytes the manifest
\* records for it; load_tile_manifest returns a spec equal to the one written
\* in volume_dims, tile_size and tiles_per_axis; the same holds when the
\* directory already held an earlier pack.
C25_WriteThenLoad ==
    packSpec # None =>
        /\ TILE_MANIFEST_FILENAME \in DOMAIN packDir.files
        /\ With(ManifestEntries(packDir.files), LAMBDA entries :
              /\ Len(entries) = Len(packTiles)
              /\ \A k \in DOMAIN packTiles :
                    With(tile_index_to_name(packTiles[k][1]), LAMBDA name :
                        /\ name \in DOMAIN packDir.files
                        /\ packDir.files[name] = packTiles[k][2]
                        /\ EntryRecords(entries, name, Len(packDir.files[name]))))
        /\ packLoaded # None =>
              /\ packLoaded.st = "ok"
              /\ packLoaded.volume_dims = packSpec.volume_dims
              /\ packLoaded.tile_size = packSpec.tile_size
              /\ packLoaded.tiles_per_axis = packSpec.tiles_per_axis

\* a second pack of fewer, smaller tiles went into a directory that held a
\* pack of more tiles, and its manifest was loaded
C25_Witness ==
    /\ packDir.packs = 2 /\ packLoaded # None /\ packLoaded.st = "ok"
    /\ packLoaded.volume_dims = <<2, 1, 1>> /\ packLoaded.tile_size = <<1, 1, 1>>
    /\ packLoaded.tiles_per_axis = <<2, 1, 1>>
    /\ Len(packTiles) = 2
    /\ Cardinality(DOMAIN packDir.files) > 3
    /\ packDir.files[tile_index_to_name(TileIndexV07(0, 0, 0))] = <<255>>

\* ------------------------------------------------------------------------
\* Tiling a volume buffer into padded tiles
\* ------------------------------------------------------------------------

\* tile_volume_buffer_v08(buf, vspec, tileSize)
TileVolumeBufferV08 ==
    /\ tiled8 = None
    /\ tiled8' = tile_volume_buffer_v08(buf, vspec, tileSize)
    /\ UNCHANGED <<tileSize, tiled, codecVars, roi, clampVars, tileVars, readVars,
                   snapVars, legacyVars, axisVars, asmVars, hdrVars, nameVars,
                   dirVars, geoVars>>

NextTiling8 == TileVolumeBufferV08
SpecTiling8 == InitTiling /\ [][NextTiling8]_vars

\* ------------------------------------------------------------------------
\* Padded tiling claims
\* ------------------------------------------------------------------------

\* the bytes of channel c of the source voxel (x, y, z) in the C-order buffer
SourceElement(x, y, z, c) ==
    LET at == ((z * vspec.dims[2] + y) * vspec.dims[1] + x) * VoxelBytes
                  + c * itemsize(vspec.dtype)
    IN  Slice(buf, at, at + itemsize(vspec.dtype))

\* the bytes of channel c of voxel (i, j, k) of a tile buffer laid out as
\* (tile_z, tile_y, tile_x, C) in C order
TileElement(tile, i, j, k, c) ==
    LET at == ((k * tileSize[2] + j) * tileSize[1] + i) * VoxelBytes
                  + c * itemsize(vspec.dtype)
    IN  Slice(tile, at, at + itemsize(vspec.dtype))

\* C26: for a C-order volume buffer and a positive tile size,
\* tile_volume_buffer_v08 returns one buffer for each grid index, each of
\* exactly tile_x * tile_y * tile_z * channels * itemsize bytes; voxel
\* (i, j, k) of tile (tx, ty, tz) equals the source voxel at (tx*tile_x + i,
\* ty*tile_y + j, tz*tile_z + k) when that lies inside the volume and is zero
\* in every channel when it lies beyond the volume's edge.
C26_EdgeTilesZeroPadded ==
    (tiled8 # None /\ TilingCase) =>
        /\ tiled8.st = "ok"
        /\ DOMAIN tiled8.tiles = TilingIndices
        /\ \A idx \in TilingIndices :
              /\ Len(tiled8.tiles[idx])
                    = tileSize[1] * tileSize[2] * tileSize[3] * VoxelBytes
              /\ \A i \in 0..(tileSize[1] - 1), j \in 0..(tileSize[2] - 1),
                    k \in 0..(tileSize[3] - 1), c \in 0..(vspec.channels - 1) :
                    LET x == idx.tx * tileSize[1] + i
                        y == idx.ty * tileSize[2] + j
                        z == idx.tz * tileSize[3] + k
                    IN  TileElement(tiled8.tiles[idx], i, j, k, c) =
                            IF x < vspec.dims[1] /\ y < vspec.dims[2] /\ z < vspec.dims[3]
                            THEN SourceElement(x, y, z, c)
                            ELSE Zeros(itemsize(vspec.dtype))

\* an edge tile was padded on the x axis, with more than one channel and
\* more than one byte per element, and holds source bytes that are not zero
C26_Witness ==
    /\ tiled8 # None /\ TilingCase /\ tiled8.st = "ok"
    /\ vspec.dims = <<MaxVol + 1, 1, 1>> /\ tileSize = <<MaxTile, 1, 1>>
    /\ vspec.channels = 2 /\ vspec.dtype = "uint16"
    /\ (MaxVol + 1) % MaxTile # 0
    /\ Cardinality(DOMAIN tiled8.tiles) > 1
    /\ \E idx \in DOMAIN tiled8.tiles :
          /\ TileElement(tiled8.tiles[idx], 0, 0, 0, 1) # Zeros(2)
          /\ TileElement(tiled8.tiles[idx], MaxTile - 1, 0, 0, 1) = Zeros(2)

\* ------------------------------------------------------------------------
\* Choosing the cube
\* ------------------------------------------------------------------------

\* payload sizes drawn, as wide integers: every size from -8 to 70, sizes
\* next to the cubes 5^3, 10^3 and 100^3, and sizes at and just above 2^51
\* and 2^52, where a double still holds every whole number
GeoPayloadInputs ==
    {WideOf(n) : n \in -8..70}
        \cup {WideOf(n) : n \in {124, 125, 126, 999, 1000, 1001, 999999, 1000000,
                                  1000001, 4000000, 4000001}}
        \cup {<<2^24, k>> : k \in {0, 1, 2, 3, 4, 9, 10, 2000}}
        \cup {<<2^25, k>> : k \in {0, 1, 2, 20}}

\* channel counts drawn
GeoChannelInputs == {-4, -1, 0, 1, 2, 3, 4}

InitGeo ==
    /\ geoPayload \in GeoPayloadInputs
    /\ geoChannels \in GeoChannelInputs
    /\ geometry = None
    /\ EarlyIdle /\ Pad8Idle /\ AsmIdle /\ HdrIdle /\ NameIdle /\ DirIdle

\* choose_geometry_v05(payload_size, channels)
ChooseGeometry ==
    /\ geometry = None
    /\ geometry' \in choose_geometry_v05(geoPayload, geoChannels)
    /\ UNCHANGED <<geoPayload, geoChannels, earlyVars, pad8Vars, asmVars, hdrVars,
                   nameVars, dirVars>>

NextGeo == ChooseGeometry
SpecGeo == InitGeo /\ [][NextGeo]_vars

\* ------------------------------------------------------------------------
\* Cube claims
\* ------------------------------------------------------------------------

\* payload_size >= 1 and channels >= 1
GeoPositive ==
    geoPayload[1] >= 0 /\ ~WideIsZero(geoPayload) /\ geoChannels >= 1

\* d^3 * channels >= payload_size
CubeHolds(d) ==
    ~WideLess(WideMul16(WideCube(d), geoChannels), geoPayload)

\* C27: for payload_size >= 1 and channels >= 1 choose_geometry_v05 returns
\* a cube (d, d, d) with d^3 * channels >= payload_size and
\* (d - 1)^3 * channels < payload_size.
C27_GeometryFitsMinimal ==
    (geometry # None /\ GeoPositive) =>
        /\ geometry.st = "ok"
        /\ geometry.dims[1] = geometry.dims[2] /\ geometry.dims[2] = geometry.dims[3]
        /\ CubeHolds(geometry.dims[1])
        /\ ~CubeHolds(geometry.dims[1] - 1)

\* what the code does: the cube fits and is minimal for every payload that
\* needs fewer than 2^44 voxels
C27_SmallGeometryFitsMinimal ==
    (geometry # None /\ GeoPositive /\ geoPayload[1] < 2^17) =>
        /\ geometry.st = "ok"
        /\ geometry.dims[1] = geometry.dims[2] /\ geometry.dims[2] = geometry.dims[3]
        /\ CubeHolds(geometry.dims[1])
        /\ ~CubeHolds(geometry.dims[1] - 1)

\* a cube was returned that does not hold the payload
C27_CubeTooSmall ==
    /\ geometry # None /\ GeoPositive /\ geometry.st = "ok"
    /\ ~CubeHolds(geometry.dims[1])

\* C28: choose_geometry_v05 raises an error for payload_size <= 0 and for
\* channels <= 0, and for positive inputs returns a side that is at least a
\* fixed minimum greater than 1, never a 0x0x0 or a 1x1x1 cube.
C28_ChecksAndMinimumSide ==
    geometry # None =>
        IF GeoPositive
        THEN geometry.st = "ok" /\ geometry.dims[1] > 1
        ELSE geometry.st = "err"

\* a cube without voxels was returned for a payload size or channel count
\* that is not positive
C28_NoErrorForNonPositive ==
    /\ geometry # None /\ ~GeoPositive /\ geometry.st = "ok"
    /\ geometry.dims = <<0, 0, 0>>

\* a single voxel was returned for positive inputs
C28_SingleVoxel ==
    /\ geometry # None /\ GeoPositive /\ geometry.st = "ok"
    /\ geometry.dims = <<1, 1, 1>>

\* what the code does: a channel count of 0 raises ZeroDivisionError, a
\* quotient of -1 or less raises TypeError, and every other input that is not
\* positive is answered, with the cube 0x0x0 when the payload size is 0 or
\* the quotient lies between -1 and 0
C28_ErrorsOfTheCode ==
    geometry # None =>
        /\ geoChannels = 0 => geometry = Raise("ZeroDivisionError")
        /\ (geoChannels # 0 /\ WideIsZero(geoPayload)) =>
               geometry = [st |-> "ok", dims |-> <<0, 0, 0>>]
        /\ geometry.st = "err" => ~GeoPositive

\* ------------------------------------------------------------------------
\* The four-channel legacy codec: payload channel and metadata channels
\* ------------------------------------------------------------------------

\* voxels whose bytes a caller rewrites: the first three and the last
MetadataVoxels == {0, 1, 2, 16 * 16 * 16 - 1}

\* the values a caller writes
MetadataValues == {0, 9, 255}

\* blob b with value v in channel c of voxel i and the footer recomputed
\* over the new voxel region
WithVoxelChannel(b, i, c, v) ==
    With([Slice(b, HEADER_SIZE, Len(b) - FOOTER_SIZE) EXCEPT ![4 * i + c + 1] = v],
         LAMBDA voxels : Slice(b, 0, HEADER_SIZE) \o voxels \o Crc32(voxels))

\* a caller stores per-voxel metadata in channels 1..3 of a voxel, or a byte
\* in the payload channel of a voxel past the payload, and rewrites the CRC
SetVoxelChannel ==
    /\ LegacyBlobFresh
    /\ legacyEncoded.call = "encode_bytes_to_ci3_v02"
    /\ \E i \in MetadataVoxels, c \in 0..3, v \in MetadataValues :
          /\ c = 0 => i >= Len(legacyData.data)
          /\ legacyBlob[HEADER_SIZE + 4 * i + c + 1] # v
          /\ legacyBlob' = WithVoxelChannel(legacyBlob, i, c, v)
    /\ UNCHANGED <<legacyEncoded, legacyDecoded, legacyInputs>>

NextChannels == EncodeCi3V02 \/ SetVoxelChannel \/ DecodeCi3V02
SpecChannels == InitLegacy /\ [][NextChannels]_vars

\* the blob the encoder returned: 24 + 4096*4 + 4 bytes, voxel i at offset
\* 4*i of the voxel region holding (payload byte i or 0, 255, 0, 0)
ChannelsLaidOut ==
    LET out == legacyEncoded.out.bytes
        data == legacyData.data
    IN  /\ Len(out) = 24 + 4096 * 4 + 4
        /\ UnpackU32(Slice(out, 16, 20)) = Len(data)
        /\ \A i \in 0..4095 :
              /\ out[24 + 4 * i + 1] = (IF i < Len(data) THEN data[i + 1] ELSE 0)
              /\ out[24 + 4 * i + 2] = 255
              /\ out[24 + 4 * i + 3] = 0
              /\ out[24 + 4 * i + 4] = 0

\* the channel-0 bytes of the first n voxels of the blob handed to the decoder
PayloadChannel(n) == <<>> \o [i \in 1..n |-> legacyBlob[24 + 4 * (i - 1) + 1]]

\* C29: decode_ci3_v02(encode_bytes_to_ci3_v02(payload)) == payload for
\* every payload of 0..4096 bytes; the encoder puts payload byte i in channel
\* 0 of voxel i (offset 4*i of the voxel region) with channels 1..3 set to
\* 255, 0, 0, and raises exactly for payloads longer than the 4096 voxels;
\* the decoder rebuilds the payload from the channel-0 bytes of the first
\* orig_length voxels only, whatever the other bytes of the region hold.
C29_ChannelRoundTrip ==
    /\ (legacyEncoded # None /\ legacyEncoded.call = "encode_bytes_to_ci3_v02") =>
          /\ legacyEncoded.out.st = "err" <=> Len(legacyData.data) > 4096
          /\ legacyEncoded.out.st = "ok" => ChannelsLaidOut
    /\ (legacyDecoded # None /\ legacyDecoded.call = "decode_ci3_v02") =>
          /\ legacyDecoded.out.st = "ok"
          /\ legacyDecoded.out.payload = legacyData.data
          /\ legacyDecoded.out.payload = PayloadChannel(UnpackU32(Slice(legacyBlob, 16, 20)))

\* C29 witness: a payload of all 4096 bytes came back from a blob whose
\* metadata channels a caller had rewritten
C29_Witness ==
    /\ legacyDecoded # None /\ legacyDecoded.call = "decode_ci3_v02"
    /\ legacyDecoded.out.st = "ok"
    /\ Len(legacyDecoded.out.payload) = 4096
    /\ legacyBlob # legacyEncoded.out.bytes

\* ------------------------------------------------------------------------
\* ROI -> tiles: the two implementations side by side
\* ------------------------------------------------------------------------

\* index a is visited before index b by a loop nest with tz outermost, then
\* ty, then tx, each ascending
LoopBefore(a, b) ==
    \/ a.tz < b.tz
    \/ a.tz = b.tz /\ a.ty < b.ty
    \/ a.tz = b.tz /\ a.ty = b.ty /\ a.tx < b.tx

\* a list in loop order
InLoopOrder(q) == \A k \in 1..(Len(q) - 1) : LoopBefore(q[k], q[k + 1])

\* C30: for every grid and every ROI with positive extent on all axes,
\* wherever its origin lies, tiler_v07.tiles_for_roi on the grid and
\* query_tiles_for_roi on the tiling spec with tiles_per_axis =
\* ceil(dim/tile) return the same list of tile indices, in the same order:
\* tz outermost, then ty, then tx, ascending.
C30_SelectionsAgree ==
    (roi.w > 0 /\ roi.h > 0 /\ roi.d > 0 /\ picked # None /\ touched # None) =>
        /\ picked.tiles = touched.tiles
        /\ InLoopOrder(picked.tiles)
        /\ InLoopOrder(touched.tiles)

\* C30 witness: both functions have answered for an ROI that starts before
\* the volume on z and selects tiles of more than one layer and more than
\* one column
C30_Witness ==
    /\ picked # None /\ touched # None
    /\ roi.w > 0 /\ roi.h > 0 /\ roi.d > 0 /\ roi.z < 0
    /\ Len(touched.tiles) >= 4
    /\ touched.tiles[1].tz # touched.tiles[Len(touched.tiles)].tz
    /\ touched.tiles[1].tx # touched.tiles[Len(touched.tiles)].tx

====
